---------------------------- MODULE Spec2Model ----------------------------
(***************************************************************************)
(* A model of the Jira / Confluence command-line scripts:                  *)
(*   - the request helpers (jira_request, make_request, confluence_request *)
(*     as each script defines them),                                       *)
(*   - environment loading and credential validation,                      *)
(*   - the runs of the scripts (delete-all, delete-space, bulk-create, ...) *)
(*     against a remote whose answers are chosen nondeterministically.     *)
(*                                                                         *)
(* Text that the code inspects (response bodies, environment-file lines,   *)
(* typed answers, space keys) is a sequence of one-character strings, so   *)
(* that slicing, strip, split, lower/upper and substring search are        *)
(* computed as the code computes them.                                     *)
(***************************************************************************)
EXTENDS Integers, Sequences, FiniteSets, TLC

VARIABLES
    \* --- one call of a request helper
    helper,      \* which script's helper is called
    resp,        \* the HTTP response urlopen meets: [status, body]
    result,      \* what the helper call produced (NoCall before the call)
    \* --- environment loading and validation
    environ,     \* os.environ: a function from the names that are set
    environ0,    \* os.environ when the process started
    envFile,     \* the lines of the .env file (<<>> when there is none)
    config,      \* the record get_config builds / the module-level globals
    \* --- one run of a script
    script,      \* which script runs
    argv,        \* sys.argv[1:]
    stdin,       \* the line input() will read
    pc,          \* position in the script
    requests,    \* the HTTP requests sent so far, in order
    out,         \* the lines printed so far (tags), in order
    exitCode,    \* -1 while running, then the process's exit code
    locals,      \* the local variables of main()
    remote       \* the remote site: its workflow and the failures it has answered

reqVars == <<helper, resp, result>>
envVars == <<environ, environ0, envFile, config>>
runVars == <<script, argv, stdin, pc, requests, out, exitCode, locals, remote>>
vars == <<helper, resp, result, environ, environ0, envFile, config,
          script, argv, stdin, pc, requests, out, exitCode, locals, remote>>

--------------------------------------------------------------------------
(* Text *)

Min(a, b) == IF a < b THEN a ELSE b

\* s[:n] of Python, for n >= 0
Take(s, n) == SubSeq(s, 1, Min(Len(s), n))

\* s[n:] of Python, for n >= 0
Drop(s, n) == SubSeq(s, n + 1, Len(s))

\* a text of n characters c
Repeat(c, n) == [i \in 1..n |-> c]

\* str(int) for a three-digit status code
DigitChar(d) == <<"0", "1", "2", "3", "4", "5", "6", "7", "8", "9">>[d + 1]

StatusText(code) ==
    <<DigitChar(code \div 100), DigitChar((code \div 10) % 10), DigitChar(code % 10)>>

\* `needle in hay` of Python on strings
Contains(hay, needle) ==
    \E i \in 0..(Len(hay) - Len(needle)) :
        SubSeq(hay, i + 1, i + Len(needle)) = needle

\* s.startswith(p)
StartsWith(s, p) == Len(s) >= Len(p) /\ SubSeq(s, 1, Len(p)) = p

--------------------------------------------------------------------------
(* HTTP responses and Python results *)

\* The statuses urlopen returns a response for, and those it raises HTTPError for.
SuccessStatuses == {200, 201, 202, 204}
ErrorStatuses == {400, 403, 404, 409, 500}

\* A response body is either text that is no JSON document ([text |-> chars],
\* the empty body included) or the serialization of a JSON value ([doc |-> v]).
TextBody(chars) == [text |-> chars]
JsonBody(v) == [doc |-> v]
IsJson(body) == "doc" \in DOMAIN body

\* Python values of a call: None is <<>>, any other value v is <<v>>.
None == <<>>
Return(v) == [kind |-> "return", value |-> v, exc |-> "", msg |-> <<>>]
Raise(exc, msg) == [kind |-> "raise", value |-> None, exc |-> exc, msg |-> msg]
NoCall == [kind |-> "none", value |-> None, exc |-> "", msg |-> <<>>]

\* json.loads(response.read().decode('utf-8')): the parsed value, or
\* JSONDecodeError when the body is not a JSON document (an empty body is not).
JsonLoads(body) ==
    IF IsJson(body) THEN Return(<<body.doc>>) ELSE Raise("JSONDecodeError", <<>>)

\* The slice bounds of error_body[:200] and error_body[:300]
BodyLimit200 == 200
BodyLimit300 == 300

\* f'{e.code}: {error_body[:n]}'
ErrorMessage(code, body, n) == StatusText(code) \o <<":", " ">> \o Take(body.text, n)

--------------------------------------------------------------------------
(* The request helpers, one per script.  Each takes the response that       *)
(* urlopen meets and yields what the helper returns or raises.              *)

\* templates/python-jira-utils.py
jira_request(r) ==
    IF r.status \in ErrorStatuses
    THEN Raise("Exception", ErrorMessage(r.status, r.body, BodyLimit300))
    ELSE IF r.status = 204 THEN Return(None) ELSE JsonLoads(r.body)

jira_agile_request(r) ==
    IF r.status \in ErrorStatuses
    THEN Raise("Exception", ErrorMessage(r.status, r.body, BodyLimit300))
    ELSE IF r.status = 204 THEN Return(None) ELSE JsonLoads(r.body)

\* jira-issues/scripts/create-one.py
make_request_create_one(r) ==
    IF r.status \in ErrorStatuses
    THEN Raise("Exception", ErrorMessage(r.status, r.body, BodyLimit200))
    ELSE IF r.status = 204 THEN Return(None) ELSE JsonLoads(r.body)

\* jira-issues/scripts/delete-all.py: a 404 is returned as None
make_request_delete_all(r) ==
    IF r.status \in ErrorStatuses
    THEN IF r.status = 404
         THEN Return(None)
         ELSE Raise("Exception", ErrorMessage(r.status, r.body, BodyLimit200))
    ELSE IF r.status = 204 THEN Return(None) ELSE JsonLoads(r.body)

\* jira-spaces/scripts/delete-space.py
confluence_request_delete_space(r) ==
    IF r.status \in ErrorStatuses
    THEN Raise("Exception", ErrorMessage(r.status, r.body, BodyLimit300))
    ELSE IF r.status \in {204, 202} THEN Return(None) ELSE JsonLoads(r.body)

\* jira-spaces/scripts/list-spaces.py
confluence_request_list_spaces(r) ==
    IF r.status \in ErrorStatuses
    THEN Raise("Exception", ErrorMessage(r.status, r.body, BodyLimit300))
    ELSE IF r.status = 204 THEN Return(None) ELSE JsonLoads(r.body)

\* Variant: only 204 counts as no content
confluence_request_create_space_204Only(r) ==
    IF r.status \in ErrorStatuses
    THEN Raise("Exception", ErrorMessage(r.status, r.body, BodyLimit300))
    ELSE IF r.status = 204 THEN Return(None) ELSE JsonLoads(r.body)

\* jira-spaces/scripts/create-space.py
confluence_request_create_space(r) ==
    IF r.status \in ErrorStatuses
    THEN Raise("Exception", ErrorMessage(r.status, r.body, BodyLimit300))
    ELSE IF r.status \in {204, 202} THEN Return(None) ELSE JsonLoads(r.body)

\* jira-agile/scripts/bulk-create.py
make_request_bulk_create(r) ==
    IF r.status \in ErrorStatuses
    THEN Raise("Exception", ErrorMessage(r.status, r.body, BodyLimit200))
    ELSE IF r.status = 204 THEN Return(None) ELSE JsonLoads(r.body)

\* jira-auth/scripts/test.py
make_request_test(r) ==
    IF r.status \in ErrorStatuses
    THEN Raise("Exception", ErrorMessage(r.status, r.body, BodyLimit200))
    ELSE IF r.status = 204 THEN Return(None) ELSE JsonLoads(r.body)

\* jira-projects/scripts/check-fields.py: every success body is parsed
make_request_check_fields(r) ==
    IF r.status \in ErrorStatuses
    THEN Raise("Exception", ErrorMessage(r.status, r.body, BodyLimit200))
    ELSE JsonLoads(r.body)

\* jira-search/scripts/check-issues.py: every success body is parsed
make_request_check_issues(r) ==
    IF r.status \in ErrorStatuses
    THEN Raise("Exception", ErrorMessage(r.status, r.body, BodyLimit200))
    ELSE JsonLoads(r.body)

\* jira-transitions/scripts/workflow-demo.py
make_request_workflow_demo(r) ==
    IF r.status \in ErrorStatuses
    THEN Raise("Exception", ErrorMessage(r.status, r.body, BodyLimit200))
    ELSE IF r.status = 204 THEN Return(None) ELSE JsonLoads(r.body)

Helpers ==
    {"jira_request", "jira_agile_request", "create-one", "delete-all", "delete-space",
     "list-spaces", "create-space", "bulk-create", "test", "check-fields",
     "check-issues", "workflow-demo"}

\* The helper named h applied to the response r
CallHelper(h, r) ==
    CASE h = "jira_request" -> jira_request(r)
      [] h = "jira_agile_request" -> jira_agile_request(r)
      [] h = "create-one" -> make_request_create_one(r)
      [] h = "delete-all" -> make_request_delete_all(r)
      [] h = "delete-space" -> confluence_request_delete_space(r)
      [] h = "list-spaces" -> confluence_request_list_spaces(r)
      [] h = "create-space" -> confluence_request_create_space(r)
      [] h = "bulk-create" -> make_request_bulk_create(r)
      [] h = "test" -> make_request_test(r)
      [] h = "check-fields" -> make_request_check_fields(r)
      [] h = "check-issues" -> make_request_check_issues(r)
      [] h = "workflow-demo" -> make_request_workflow_demo(r)

--------------------------------------------------------------------------
(* Environment loading and credential validation *)

JIRA_EMAIL == <<"J", "I", "R", "A", "_", "E", "M", "A", "I", "L">>
JIRA_API_TOKEN == <<"J", "I", "R", "A", "_", "A", "P", "I", "_", "T", "O", "K", "E", "N">>
JIRA_BASE_URL == <<"J", "I", "R", "A", "_", "B", "A", "S", "E", "_", "U", "R", "L">>
JIRA_PROJECT_KEY ==
    <<"J", "I", "R", "A", "_", "P", "R", "O", "J", "E", "C", "T", "_", "K", "E", "Y">>
JIRA_BOARD_ID == <<"J", "I", "R", "A", "_", "B", "O", "A", "R", "D", "_", "I", "D">>

\* The built-in defaults 'SCRUM' and '1'
DefaultProjectKey == <<"S", "C", "R", "U", "M">>
DefaultBoardId == <<"1">>

Whitespace == {" ", "\t", "\n"}

\* str.strip(): leading and trailing whitespace removed
RECURSIVE LStrip(_)
LStrip(s) == IF s # <<>> /\ Head(s) \in Whitespace THEN LStrip(Tail(s)) ELSE s

RECURSIVE RStrip(_)
RStrip(s) ==
    IF s # <<>> /\ s[Len(s)] \in Whitespace THEN RStrip(SubSeq(s, 1, Len(s) - 1)) ELSE s

Strip(s) == RStrip(LStrip(s))

\* '=' in line
HasEquals(line) == \E i \in 1..Len(line) : line[i] = "="

\* line.split('=', 1): the text before the first '=' and the text after it
FirstEquals(line) == CHOOSE i \in 1..Len(line) : line[i] = "=" /\ \A j \in 1..(i - 1) : line[j] # "="

SplitKey(line) == SubSeq(line, 1, FirstEquals(line) - 1)
\* Variant: the value is the text after the last '='
SplitValue_LastEquals(line) ==
    LET last == CHOOSE i \in 1..Len(line) : line[i] = "=" /\ \A j \in (i + 1)..Len(line) : line[j] # "="
    IN SubSeq(line, last + 1, Len(line))

SplitValue(line) == SubSeq(line, FirstEquals(line) + 1, Len(line))

\* The test of load_env on one stripped line
IsAssignment(line) == line # <<>> /\ ~StartsWith(line, <<"#">>) /\ HasEquals(line)

\* Variant: the file value replaces the value already set
SetDefault_Overwrite(env, key, value) == (key :> value) @@ env

\* os.environ.setdefault(key, value); setting a variable whose name is empty
\* raises OSError (putenv rejects it)
SetDefault(env, key, value) == IF key \in DOMAIN env THEN env ELSE env @@ (key :> value)

\* The loop of load_env over the lines of the file: the environment it leaves,
\* and whether it raised.
RECURSIVE LoadLines(_, _)
LoadLines(env, lines) ==
    IF lines = <<>>
    THEN [env |-> env, raised |-> FALSE]
    ELSE LET line == Strip(Head(lines)) IN
         IF IsAssignment(line)
         THEN LET key == Strip(SplitKey(line))
                  value == Strip(SplitValue(line))
              IN IF key \notin DOMAIN env /\ key = <<>>
                 THEN [env |-> env, raised |-> TRUE]
                 ELSE LoadLines(SetDefault(env, key, value), Tail(lines))
         ELSE LoadLines(env, Tail(lines))

\* load_env(): nothing is read when the file does not exist
load_env(env, file) ==
    IF file.exists THEN LoadLines(env, file.lines) ELSE [env |-> env, raised |-> FALSE]

\* os.environ.get(key) and os.environ.get(key, default)
EnvGet(env, key) == IF key \in DOMAIN env THEN <<env[key]>> ELSE None
EnvGetDefault(env, key, default) == IF key \in DOMAIN env THEN <<env[key]>> ELSE <<default>>

\* Python truth of an optional string: None and '' are false
Truthy(v) == v # None /\ v[1] # <<>>

\* The record get_config builds (the scripts keep the same values in module
\* globals; those that have no PROJECT_KEY or board id never read the field)
ConfigOf(env) ==
    [email |-> EnvGet(env, JIRA_EMAIL),
     token |-> EnvGet(env, JIRA_API_TOKEN),
     base_url |-> EnvGet(env, JIRA_BASE_URL),
     project_key |-> EnvGetDefault(env, JIRA_PROJECT_KEY, DefaultProjectKey),
     board_id |-> EnvGetDefault(env, JIRA_BOARD_ID, DefaultBoardId)]

\* Variant: only an unset variable counts as missing
MissingCredentials_UnsetOnly(c) == c.email = None \/ c.token = None \/ c.base_url = None

\* not all([email, token, base_url])
MissingCredentials(c) == ~(Truthy(c.email) /\ Truthy(c.token) /\ Truthy(c.base_url))

NoConfig == [email |-> None, token |-> None, base_url |-> None,
             project_key |-> None, board_id |-> None]

--------------------------------------------------------------------------
(* Case conversion *)

UpperLetters == <<"A", "B", "C", "D", "E", "F", "G", "H", "I", "J", "K", "L", "M",
                  "N", "O", "P", "Q", "R", "S", "T", "U", "V", "W", "X", "Y", "Z">>
LowerLetters == <<"a", "b", "c", "d", "e", "f", "g", "h", "i", "j", "k", "l", "m",
                  "n", "o", "p", "q", "r", "s", "t", "u", "v", "w", "x", "y", "z">>

LowerChar(c) ==
    IF \E i \in 1..26 : UpperLetters[i] = c
    THEN LowerLetters[CHOOSE i \in 1..26 : UpperLetters[i] = c]
    ELSE c

UpperChar(c) ==
    IF \E i \in 1..26 : LowerLetters[i] = c
    THEN UpperLetters[CHOOSE i \in 1..26 : LowerLetters[i] = c]
    ELSE c

\* str.lower() and str.upper()
Lower(s) == [i \in 1..Len(s) |-> LowerChar(s[i])]
Upper(s) == [i \in 1..Len(s) |-> UpperChar(s[i])]

--------------------------------------------------------------------------
(* What a run leaves behind: requests sent and lines printed *)

\* An HTTP request: method, API root, endpoint, the key the path names and the
\* data handed to the helper (None when there is none)
Req(method, api, path, key, data) ==
    [method |-> method, api |-> api, path |-> path, key |-> key, data |-> data]

\* A printed line: a tag naming the print statement and the text it interpolates
Line(tag, text) == [tag |-> tag, text |-> text]
Say(tag) == Line(tag, <<>>)

\* dict.get(field, default) on a parsed JSON object
Get(doc, field, default) == IF field \in DOMAIN doc THEN doc[field] ELSE default

\* A JSON object with no member
EmptyObject == [f \in {} |-> 0]

\* The command-line flags
ArgConfirm == <<"-", "-", "c", "o", "n", "f", "i", "r", "m">>
ArgHelp == <<"-", "-", "h", "e", "l", "p">>
ArgH == <<"-", "h">>

\* x in args
InArgs(x, args) == \E i \in 1..Len(args) : args[i] = x

Scripts ==
    {"python-jira-utils", "delete-all", "delete-space", "bulk-create", "create-one", "test",
     "workflow-demo", "create-space"}

\* The request helper each script defines
HelperOf(s) == IF s = "python-jira-utils" THEN "jira_request" ELSE s

--------------------------------------------------------------------------
(* Module level of every script: load_env(), then the credential check *)

\* load_env() at import time; an exception there ends the process with a
\* traceback and exit code 1
LoadEnv ==
    /\ pc = "load_env"
    /\ LET loaded == load_env(environ, envFile) IN
         /\ environ' = loaded.env
         /\ IF loaded.raised
            THEN /\ pc' = "exit"
                 /\ exitCode' = 1
                 /\ out' = Append(out, Say("Traceback"))
            ELSE /\ pc' = "validate"
                 /\ UNCHANGED <<exitCode, out>>
    /\ UNCHANGED <<environ0, envFile, config, script, argv, stdin, requests, locals, remote>>
    /\ UNCHANGED reqVars

\* get_config() / the module-level validation: sys.exit(1) after naming the
\* required variables when a credential is missing
Validate ==
    /\ pc = "validate"
    /\ LET c == ConfigOf(environ) IN
         /\ config' = c
         /\ IF MissingCredentials(c)
            THEN /\ pc' = "exit"
                 /\ exitCode' = 1
                 /\ out' = out \o <<Say("Error: Missing required environment variables."),
                                    Say("Required: JIRA_EMAIL, JIRA_API_TOKEN, JIRA_BASE_URL")>>
            ELSE /\ pc' = "main"
                 /\ UNCHANGED <<exitCode, out>>
    /\ UNCHANGED <<environ, environ0, envFile, script, argv, stdin, requests, locals, remote>>
    /\ UNCHANGED reqVars

--------------------------------------------------------------------------
(* The remote: the answers a request can meet *)

\* Largest number of issues a search returns / of commits git reports
MaxIssues == 3

\* Error bodies of the runs
RunErrorTexts == {<<"n", "o">>, <<"e", "4", "0", "3">>}

ErrorResponses == {[status |-> s, body |-> TextBody(t)] : s \in ErrorStatuses, t \in RunErrorTexts}

\* A success answer whose body is not what the endpoint documents: no content,
\* or a body that is no JSON
OddResponses == {[status |-> 204, body |-> TextBody(<<>>)],
                 [status |-> 200, body |-> TextBody(<<"<", "h", "t", "m", "l", ">">>)]}

\* str(int) of a natural number
RECURSIVE Decimal(_)
Decimal(n) == IF n < 10 THEN <<DigitChar(n)>> ELSE Append(Decimal(n \div 10), DigitChar(n % 10))

IssueKey(i) == <<"S", "-">> \o Decimal(i)

\* The body of a search answer: n issues, and the total the remote reports
SearchDoc(n, total) == [issues |-> [i \in 1..n |-> [key |-> IssueKey(i)]], total |-> total]

SearchResponses ==
    {[status |-> 200, body |-> JsonBody(SearchDoc(n, n + more))] : n \in 0..MaxIssues, more \in {0, 1}}
    \cup {[status |-> 200, body |-> JsonBody(EmptyObject)]}
    \cup OddResponses \cup ErrorResponses

\* Answers to DELETE: 204 on success, 202 when accepted, 200, or an error
DeleteResponses ==
    {[status |-> s, body |-> TextBody(<<>>)] : s \in {200, 202, 204}} \cup ErrorResponses

--------------------------------------------------------------------------
(* jira-issues/scripts/delete-all.py *)

\* The slice bound of issues[:20] in the dry-run listing
DryRunListLimit == 20

\* str(HTTPError): 'HTTP Error <code>: <reason>' (the reason phrase is left out)
HttpErrorText(code) ==
    <<"H", "T", "T", "P", " ", "E", "r", "r", "o", "r", " ">> \o StatusText(code) \o <<":", " ">>

\* Variant: a 404 is raised like every other error
delete_issue_delete_all_Raise404(r) ==
    IF r.status \in ErrorStatuses
    THEN Raise("HTTPError", HttpErrorText(r.status))
    ELSE Return(<<r.status = 204>>)

\* delete_issue(issue_key): True when the answer is 204 or 404, False on any
\* other success status, the HTTPError itself otherwise
delete_issue_delete_all(r) ==
    IF r.status \in ErrorStatuses
    THEN IF r.status = 404
         THEN Return(<<TRUE>>)
         ELSE Raise("HTTPError", HttpErrorText(r.status))
    ELSE Return(<<r.status = 204>>)

\* The summary block printed after the deletion loop
DeleteAllSummary(deleted, failed) ==
    <<Say("SUMMARY"), Line("Deleted:", <<deleted>>), Line("Failed:", <<failed>>)>>

\* main() up to the end of the search: banner, search, then the dry-run
\* listing or the start of the deletion loop
DeleteAllSearchOn(answers) ==
    /\ script = "delete-all" /\ pc = "main"
    /\ \E r \in answers :
         LET confirm == InArgs(ArgConfirm, argv)
             dry_run == ~confirm
             banner == <<Say(IF dry_run THEN "Mode: DRY RUN (no changes)" ELSE "Mode: LIVE DELETE")>>
             res == make_request_delete_all(r)
             doc == res.value[1]
             issues == Get(doc, "issues", <<>>)
             total == Get(doc, "total", Len(issues))
             found == <<Line("Found issues to delete", <<total>>)>>
             shown == Take(issues, DryRunListLimit)
             listing == [i \in 1..Len(shown) |-> Line("would delete", shown[i].key)]
             more == IF Len(issues) > DryRunListLimit
                     THEN <<Line("... and more", <<Len(issues) - DryRunListLimit>>)>>
                     ELSE <<>>
         IN
         /\ resp' = r
         /\ result' = res
         /\ helper' = "delete-all"
         /\ requests' = Append(requests, Req("GET", "jira", "/search/jql", config.project_key[1], None))
         /\ IF res.kind = "raise"
            THEN \* except Exception as e: print(f'Error: {e}'); sys.exit(1)
                 /\ out' = out \o banner \o <<Line("Error:", res.msg)>>
                 /\ pc' = "exit" /\ exitCode' = 1
                 /\ UNCHANGED locals
            ELSE IF res.value = None
            THEN \* result.get raises AttributeError on None, caught the same way
                 /\ out' = out \o banner \o <<Line("Error:", <<"AttributeError">>)>>
                 /\ pc' = "exit" /\ exitCode' = 1
                 /\ UNCHANGED locals
            ELSE IF dry_run
            THEN /\ out' = out \o banner \o found \o <<Say("[DRY RUN] Would delete:")>>
                              \o listing \o more \o <<Say("Run with --confirm to actually delete.")>>
                 /\ pc' = "exit" /\ exitCode' = 0
                 /\ locals' = [issues |-> issues, idx |-> 1, deleted |-> 0, failed |-> 0]
            ELSE IF issues = <<>>
            THEN /\ out' = out \o banner \o found \o <<Say("Deleting issues...")>>
                              \o DeleteAllSummary(0, 0)
                 /\ pc' = "exit" /\ exitCode' = 0
                 /\ locals' = [issues |-> issues, idx |-> 1, deleted |-> 0, failed |-> 0]
            ELSE /\ out' = out \o banner \o found \o <<Say("Deleting issues...")>>
                 /\ pc' = "delete"
                 /\ locals' = [issues |-> issues, idx |-> 1, deleted |-> 0, failed |-> 0]
                 /\ UNCHANGED exitCode
    /\ UNCHANGED <<script, argv, stdin, remote>>
    /\ UNCHANGED envVars

DeleteAllSearch == DeleteAllSearchOn(SearchResponses)

\* One iteration of `for issue in issues`, and the summary after the last one
DeleteAllDeleteOn(answers) ==
    /\ script = "delete-all" /\ pc = "delete"
    /\ \E r \in answers :
         LET issue == locals.issues[locals.idx]
             res == delete_issue_delete_all(r)
             ok == res.kind = "return" /\ res.value = <<TRUE>>
             line == IF res.kind = "raise" THEN Line("[FAIL] Error", issue.key)
                     ELSE IF ok THEN Line("[OK] Deleted:", issue.key)
                     ELSE Line("[FAIL] Failed:", issue.key)
             deleted == IF ok THEN locals.deleted + 1 ELSE locals.deleted
             failed == IF ok THEN locals.failed ELSE locals.failed + 1
             last == locals.idx = Len(locals.issues)
         IN
         /\ resp' = r
         /\ result' = res
         /\ helper' = "delete-all"
         /\ requests' = Append(requests, Req("DELETE", "jira", "/issue", issue.key, None))
         /\ locals' = [locals EXCEPT !.idx = @ + 1, !.deleted = deleted, !.failed = failed]
         /\ IF last
            THEN /\ out' = Append(out, line) \o DeleteAllSummary(deleted, failed)
                 /\ pc' = "exit" /\ exitCode' = 0
            ELSE /\ out' = Append(out, line)
                 /\ UNCHANGED <<pc, exitCode>>
    /\ UNCHANGED <<script, argv, stdin, remote>>
    /\ UNCHANGED envVars

DeleteAllDelete == DeleteAllDeleteOn(DeleteResponses)

--------------------------------------------------------------------------
(* jira-spaces/scripts/delete-space.py *)

\* The body of a space lookup answer
SpaceDoc(key) == [key |-> key, name |-> <<"D", "o", "c", "s">>, type |-> <<"g", "l", "o", "b", "a", "l">>]

\* A lookup answer that lacks the members main() prints
PartialSpaceDoc(key) == [key |-> key]

LookupResponses(key) ==
    {[status |-> 200, body |-> JsonBody(SpaceDoc(key))],
     [status |-> 200, body |-> JsonBody(PartialSpaceDoc(key))],
     [status |-> 200, body |-> JsonBody(EmptyObject)]}
    \cup OddResponses \cup ErrorResponses

\* get_space(key): the bare `except:` turns every exception into None
get_space_delete_space(r) ==
    LET res == confluence_request_delete_space(r) IN
    IF res.kind = "raise" THEN Return(None) ELSE res

\* Python truth of a parsed value: None and the empty object are false
TruthyValue(v) == v # None /\ v[1] # EmptyObject

\* Variant: any answer but the empty line confirms
IsYes_AnyAnswer(answer) == answer # <<>>

\* answer.lower() in ('y', 'yes')
IsYes(answer) == Lower(answer) \in {<<"y">>, <<"y", "e", "s">>}

\* main() up to the lookup: argument check, upper-casing of the key, lookup,
\* and the report of the space found
DeleteSpaceLookup ==
    /\ script = "delete-space" /\ pc = "main"
    /\ IF Len(argv) < 1 \/ InArgs(ArgHelp, argv) \/ InArgs(ArgH, argv)
       THEN /\ out' = Append(out, Say("usage"))
            /\ pc' = "exit"
            /\ exitCode' = IF InArgs(ArgHelp, argv) \/ InArgs(ArgH, argv) THEN 0 ELSE 1
            /\ UNCHANGED <<requests, locals>>
            /\ UNCHANGED reqVars
       ELSE LET space_key == Upper(argv[1])
                skip_confirm == InArgs(ArgConfirm, argv) IN
            \E r \in LookupResponses(space_key) :
              LET space == get_space_delete_space(r) IN
              /\ resp' = r
              /\ result' = confluence_request_delete_space(r)
              /\ helper' = "delete-space"
              /\ requests' = Append(requests, Req("GET", "confluence", "/space", space_key, None))
              /\ locals' = [space_key |-> space_key, skip_confirm |-> skip_confirm]
              /\ IF ~TruthyValue(space.value)
                 THEN /\ out' = out \o <<Line("Looking up space", space_key),
                                         Line("Error: Space not found.", space_key)>>
                      /\ pc' = "exit" /\ exitCode' = 1
                 ELSE IF ~({"key", "name", "type"} \subseteq DOMAIN space.value[1])
                 THEN \* KeyError in the report: traceback, exit code 1
                      /\ out' = out \o <<Line("Looking up space", space_key), Say("Space found:"),
                                         Say("Traceback")>>
                      /\ pc' = "exit" /\ exitCode' = 1
                 ELSE /\ out' = out \o <<Line("Looking up space", space_key), Say("Space found:"),
                                         Say("WARNING: This will permanently delete")>>
                      /\ pc' = IF skip_confirm THEN "delete" ELSE "prompt"
                      /\ UNCHANGED exitCode
    /\ UNCHANGED <<script, argv, stdin, remote>>
    /\ UNCHANGED envVars

\* The interactive confirmation: input(), then the test of the answer
DeleteSpacePrompt ==
    /\ script = "delete-space" /\ pc = "prompt"
    /\ IF stdin = None
       THEN \* EOFError from input(): traceback, exit code 1
            /\ out' = out \o <<Line("Type 'yes' to delete space", locals.space_key), Say("Traceback")>>
            /\ pc' = "exit" /\ exitCode' = 1
       ELSE IF IsYes(stdin[1])
       THEN /\ out' = Append(out, Line("Type 'yes' to delete space", locals.space_key))
            /\ pc' = "delete"
            /\ UNCHANGED exitCode
       ELSE /\ out' = out \o <<Line("Type 'yes' to delete space", locals.space_key),
                               Say("Deletion cancelled.")>>
            /\ pc' = "exit" /\ exitCode' = 0
    /\ UNCHANGED <<script, argv, stdin, requests, locals, remote>>
    /\ UNCHANGED envVars
    /\ UNCHANGED reqVars

\* The deletion and its report; the error message is chosen by substring
\* search in str(e)
DeleteSpaceDelete ==
    /\ script = "delete-space" /\ pc = "delete"
    /\ \E r \in DeleteResponses :
         LET res == confluence_request_delete_space(r) IN
         /\ resp' = r
         /\ result' = res
         /\ helper' = "delete-space"
         /\ requests' = Append(requests, Req("DELETE", "confluence", "/space", locals.space_key, None))
         /\ IF res.kind = "raise"
            THEN /\ out' = out \o <<Line("Deleting space", locals.space_key),
                              IF Contains(res.msg, <<"4", "0", "3">>)
                              THEN Say("Error: You do not have permission to delete this space.")
                              ELSE IF Contains(res.msg, <<"4", "0", "4">>)
                              THEN Line("Error: Space not found (may have already been deleted).",
                                        locals.space_key)
                              ELSE Line("Error deleting space:", res.msg)>>
                 /\ exitCode' = 1
            ELSE /\ out' = out \o <<Line("Deleting space", locals.space_key),
                                    Say("Space deleted successfully!"),
                                    Line("Space has been deleted.", locals.space_key)>>
                 /\ exitCode' = 0
         /\ pc' = "exit"
    /\ UNCHANGED <<script, argv, stdin, locals, remote>>
    /\ UNCHANGED envVars

--------------------------------------------------------------------------
(* templates/python-jira-utils.py, run as a script *)

\* delete_issue(base_url, headers, issue_key): whatever jira_request yields
delete_issue_template(r) == jira_request(r)

UserDoc == [displayName |-> <<"A", "n", "n">>, emailAddress |-> <<"a", "@", "x">>]

MyselfResponses ==
    {[status |-> 200, body |-> JsonBody(UserDoc)], [status |-> 200, body |-> JsonBody(EmptyObject)]}
    \cup OddResponses \cup ErrorResponses

\* The connection test under `if __name__ == '__main__'`
TemplateMain ==
    /\ script = "python-jira-utils" /\ pc = "main"
    /\ \E r \in MyselfResponses :
         LET res == jira_request(r)
             failed == \/ res.kind = "raise"
                       \/ res.value = None
                       \/ ~({"displayName", "emailAddress"} \subseteq DOMAIN res.value[1])
         IN
         /\ resp' = r
         /\ result' = res
         /\ helper' = "jira_request"
         /\ requests' = Append(requests, Req("GET", "jira", "/myself", <<>>, None))
         /\ IF failed
            THEN /\ out' = out \o <<Say("Testing Jira connection..."),
                                    Line("Connection failed:", res.msg)>>
                 /\ exitCode' = 1
            ELSE /\ out' = out \o <<Say("Testing Jira connection..."),
                                    Line("Connected as:", res.value[1].displayName)>>
                 /\ exitCode' = 0
         /\ pc' = "exit"
    /\ UNCHANGED <<script, argv, stdin, locals, remote>>
    /\ UNCHANGED envVars

--------------------------------------------------------------------------
(* jira-agile/scripts/bulk-create.py *)

\* batch_size = 5
BatchSize == 5

\* The slice bound of summary[:255]
SummaryLimit == 255

\* Largest number of commits git reports
MaxCommits == 7

Summary(i) == <<"c", DigitChar(i)>>

CommitLists == {[i \in 1..n |-> Summary(i)] : n \in 0..MaxCommits}

\* The transitions the remote may offer
Transition(id, name, to) == [id |-> id, name |-> name, to |-> [name |-> to]]

TStart == Transition("11", <<"S", "t", "a", "r", "t">>,
                     <<"P", "r", "o", "g", "r", "e", "s", "s", "i", "n", "g">>)
TClose == Transition("21", <<"C", "l", "o", "s", "e">>, <<"D", "o", "n", "e">>)
TReopen == Transition("31", <<"R", "e", "o", "p", "e", "n">>, <<"T", "o", " ", "D", "o">>)

TransitionLists == {<<>>, <<TStart, TClose, TReopen>>, <<TStart, TReopen>>}

\* Largest number of requests of one bulk-create run that the remote fails
MaxBulkFaults == 2

\* The answers to a request of bulk-create, each with the remote it leaves:
\* the answer the endpoint documents, or, while the remote has failures left,
\* one of `faulty`
BulkAnswers(good, faulty) ==
    {<<good, remote>>}
    \cup (IF remote.faults < MaxBulkFaults
          THEN {<<r, [remote EXCEPT !.faults = @ + 1]>> : r \in faulty}
          ELSE {})

CreateResponses(i) ==
    BulkAnswers([status |-> 201, body |-> JsonBody([key |-> IssueKey(i), id |-> <<DigitChar(i)>>])],
                OddResponses \cup ErrorResponses)

TransitionsResponses ==
    BulkAnswers([status |-> 200, body |-> JsonBody([transitions |-> remote.transitions])],
                {[status |-> 200, body |-> JsonBody(EmptyObject)]}
                \cup OddResponses \cup ErrorResponses)

\* Answers to the transition POST: 204 on success
PostTransitionResponses ==
    BulkAnswers([status |-> 204, body |-> TextBody(<<>>)], ErrorResponses)

\* The loop of transition_to_done: the first transition whose destination
\* status is 'done' ignoring case, as <<t>>, or None
RECURSIVE FindDone(_)
FindDone(transitions) ==
    IF transitions = <<>> THEN None
    ELSE IF Lower(Head(transitions).to.name) = <<"d", "o", "n", "e">>
         THEN <<Head(transitions)>>
         ELSE FindDone(Tail(transitions))

\* The fields create_issue sends: the summary is cut to 255 characters
create_issue_fields(summary) ==
    [project |-> "PROJECT_KEY", issuetype |-> "Story", summary |-> Take(summary, SummaryLimit)]

\* Variant: the slice stops one item early
BatchAt_Short(commits, i) == SubSeq(commits, i + 1, Min(Len(commits), i + BatchSize - 1))

\* commits[i:i + batch_size]
BatchAt(commits, i) == SubSeq(commits, i + 1, Min(Len(commits), i + BatchSize))

\* (len(commits) + batch_size - 1) // batch_size
TotalBatches(commits) == (Len(commits) + BatchSize - 1) \div BatchSize

BatchHeader(commits, i) ==
    Line("--- Processing batch", <<(i \div BatchSize) + 1, TotalBatches(commits)>>)

BulkSummary(created, failed) ==
    <<Say("SUMMARY"), Line("Created:", <<created>>), Line("Failed:", <<failed>>)>>

\* main() up to the first batch: the commits are read from git
BulkStart ==
    /\ script = "bulk-create" /\ pc = "main"
    /\ \E commits \in CommitLists :
         IF commits = <<>>
         THEN /\ out' = out \o <<Line("Creating issues", <<Len(commits)>>), Say("No commits found.")>>
              /\ pc' = "exit" /\ exitCode' = 0
              /\ locals' = [commits |-> commits]
         ELSE /\ out' = out \o <<Line("Creating issues", <<Len(commits)>>), BatchHeader(commits, 0)>>
              /\ pc' = "create"
              /\ locals' = [commits |-> commits, i |-> 0, batch |-> BatchAt(commits, 0), j |-> 1,
                            created |-> 0, failed |-> 0, issue_key |-> <<>>, transition_id |-> ""]
              /\ UNCHANGED exitCode
    /\ UNCHANGED <<script, argv, stdin, requests, remote>>
    /\ UNCHANGED envVars
    /\ UNCHANGED reqVars

\* Variant: the first failure ends the run with the summary
BulkNext_AbortOnFailure(lines, created, failed) ==
    IF failed > locals.failed
    THEN /\ locals' = [locals EXCEPT !.created = created, !.failed = failed]
         /\ out' = out \o lines \o BulkSummary(created, failed)
         /\ pc' = "exit" /\ exitCode' = 0
    ELSE LET loc == [locals EXCEPT !.created = created, !.failed = failed] IN
         IF loc.j < Len(loc.batch)
         THEN /\ locals' = [loc EXCEPT !.j = @ + 1]
              /\ out' = out \o lines
              /\ pc' = "create"
              /\ UNCHANGED exitCode
         ELSE IF loc.i + BatchSize < Len(loc.commits)
         THEN /\ locals' = [loc EXCEPT !.i = @ + BatchSize,
                                       !.batch = BatchAt(loc.commits, loc.i + BatchSize),
                                       !.j = 1]
              /\ out' = out \o lines \o <<BatchHeader(loc.commits, loc.i + BatchSize)>>
              /\ pc' = "create"
              /\ UNCHANGED exitCode
         ELSE /\ locals' = [loc EXCEPT !.j = @ + 1]
              /\ out' = out \o lines \o BulkSummary(created, failed)
              /\ pc' = "exit" /\ exitCode' = 0

\* The end of one iteration of `for commit_msg in batch`: the counters are
\* updated, then comes the next item, the next batch, or the summary
BulkNext(lines, created, failed) ==
    LET loc == [locals EXCEPT !.created = created, !.failed = failed] IN
    IF loc.j < Len(loc.batch)
    THEN /\ locals' = [loc EXCEPT !.j = @ + 1]
         /\ out' = out \o lines
         /\ pc' = "create"
         /\ UNCHANGED exitCode
    ELSE IF loc.i + BatchSize < Len(loc.commits)
    THEN /\ locals' = [loc EXCEPT !.i = @ + BatchSize,
                                  !.batch = BatchAt(loc.commits, loc.i + BatchSize),
                                  !.j = 1]
         /\ out' = out \o lines \o <<BatchHeader(loc.commits, loc.i + BatchSize)>>
         /\ pc' = "create"
         /\ UNCHANGED exitCode
    ELSE /\ locals' = [loc EXCEPT !.j = @ + 1]
         /\ out' = out \o lines \o BulkSummary(created, failed)
         /\ pc' = "exit" /\ exitCode' = 0

\* create_issue(commit_msg) and the report of the key
BulkCreateIssue ==
    /\ script = "bulk-create" /\ pc = "create"
    /\ LET commit_msg == locals.batch[locals.j] IN
       \E a \in CreateResponses(locals.i + locals.j) :
         LET r == a[1]
             res == make_request_bulk_create(r)
             ok == res.kind = "return" /\ res.value # None /\ "key" \in DOMAIN res.value[1]
         IN
         /\ resp' = r
         /\ remote' = a[2]
         /\ result' = res
         /\ helper' = "bulk-create"
         /\ requests' = Append(requests,
                               Req("POST", "jira", "/issue", <<>>, <<create_issue_fields(commit_msg)>>))
         /\ IF ok
            THEN /\ out' = Append(out, Line("[OK] Created", res.value[1].key))
                 /\ locals' = [locals EXCEPT !.issue_key = res.value[1].key]
                 /\ pc' = "get_transitions"
                 /\ UNCHANGED exitCode
            ELSE BulkNext(<<Say("[FAIL] Failed:")>>, locals.created, locals.failed + 1)
    /\ UNCHANGED <<script, argv, stdin>>
    /\ UNCHANGED envVars

\* transition_to_done(issue['key']) up to the choice of the transition
BulkGetTransitions ==
    /\ script = "bulk-create" /\ pc = "get_transitions"
    /\ \E a \in TransitionsResponses :
         LET r == a[1]
             res == make_request_bulk_create(r)
             ok == res.kind = "return" /\ res.value # None
                   /\ "transitions" \in DOMAIN res.value[1]
             done_transition == FindDone(res.value[1].transitions)
         IN
         /\ resp' = r
         /\ remote' = a[2]
         /\ result' = res
         /\ helper' = "bulk-create"
         /\ requests' = Append(requests, Req("GET", "jira", "/issue/transitions", locals.issue_key, None))
         /\ IF ~ok
            THEN BulkNext(<<Say("[FAIL] Failed:")>>, locals.created, locals.failed + 1)
            ELSE IF done_transition = None
            THEN \* transition_to_done returns False: nothing printed, created += 1
                 BulkNext(<<>>, locals.created + 1, locals.failed)
            ELSE /\ locals' = [locals EXCEPT !.transition_id = done_transition[1].id]
                 /\ pc' = "post_transition"
                 /\ UNCHANGED <<out, exitCode>>
    /\ UNCHANGED <<script, argv, stdin>>
    /\ UNCHANGED envVars

\* The transition POST of transition_to_done and the report
BulkPostTransition ==
    /\ script = "bulk-create" /\ pc = "post_transition"
    /\ \E a \in PostTransitionResponses :
         LET r == a[1]
             res == make_request_bulk_create(r)
         IN
         /\ resp' = r
         /\ remote' = a[2]
         /\ result' = res
         /\ helper' = "bulk-create"
         /\ requests' = Append(requests, Req("POST", "jira", "/issue/transitions", locals.issue_key,
                                   <<[transition |-> [id |-> locals.transition_id]]>>))
         /\ IF res.kind = "raise"
            THEN BulkNext(<<Say("[FAIL] Failed:")>>, locals.created, locals.failed + 1)
            ELSE BulkNext(<<Line("-> transitioned to Done", locals.issue_key)>>,
                          locals.created + 1, locals.failed)
    /\ UNCHANGED <<script, argv, stdin>>
    /\ UNCHANGED envVars

--------------------------------------------------------------------------
(* The ADF builder of the template *)

\* A section is a dict: `keys` lists the keys it was given, in the order they
\* were given; the other fields hold the values of those keys (a field whose
\* key is not listed is not part of the dict).
Section(keys, heading, level, paragraph, bullets, code, language) ==
    [keys |-> keys, heading |-> heading, level |-> level, paragraph |-> paragraph,
     bullets |-> bullets, code |-> code, language |-> language]

\* 'key' in section
HasKey(section, key) == \E i \in 1..Len(section.keys) : section.keys[i] = key

\* The defaults of section.get('level', 2) and section.get('language', 'text')
DefaultLevel == 2
DefaultLanguage == <<"t", "e", "x", "t">>

TextNode(text) == [type |-> "text", text |-> text]
ParagraphBlock(text) == [type |-> "paragraph", content |-> <<TextNode(text)>>]
HeadingBlock(level, text) ==
    [type |-> "heading", attrs |-> [level |-> level], content |-> <<TextNode(text)>>]
ListItem(bullet) == [type |-> "listItem", content |-> <<ParagraphBlock(bullet)>>]
\* Variant: the list items in the reverse order of the bullets
BulletListBlock_Reversed(bullets) ==
    [type |-> "bulletList",
     content |-> [i \in 1..Len(bullets) |-> ListItem(bullets[Len(bullets) + 1 - i])]]

BulletListBlock(bullets) ==
    [type |-> "bulletList", content |-> [i \in 1..Len(bullets) |-> ListItem(bullets[i])]]
CodeBlock(language, text) ==
    [type |-> "codeBlock", attrs |-> [language |-> language], content |-> <<TextNode(text)>>]

\* Variant: level and language are never read
SectionBlocks_DefaultsOnly(section) ==
    (IF HasKey(section, "heading") THEN <<HeadingBlock(DefaultLevel, section.heading)>> ELSE <<>>)
    \o (IF HasKey(section, "paragraph") THEN <<ParagraphBlock(section.paragraph)>> ELSE <<>>)
    \o (IF HasKey(section, "bullets") THEN <<BulletListBlock(section.bullets)>> ELSE <<>>)
    \o (IF HasKey(section, "code") THEN <<CodeBlock(DefaultLanguage, section.code)>> ELSE <<>>)

\* Variant: a section that has a heading gives no paragraph block
SectionBlocks_HeadingOnly(section) ==
    IF HasKey(section, "heading")
    THEN <<HeadingBlock(IF HasKey(section, "level") THEN section.level ELSE DefaultLevel,
                        section.heading)>>
    ELSE IF HasKey(section, "paragraph") THEN <<ParagraphBlock(section.paragraph)>> ELSE <<>>

\* Variant: the paragraph of a section comes before its heading
SectionBlocks_ParagraphFirst(section) ==
    (IF HasKey(section, "paragraph") THEN <<ParagraphBlock(section.paragraph)>> ELSE <<>>)
    \o (IF HasKey(section, "heading")
        THEN <<HeadingBlock(IF HasKey(section, "level") THEN section.level ELSE DefaultLevel,
                            section.heading)>>
        ELSE <<>>)
    \o (IF HasKey(section, "bullets") THEN <<BulletListBlock(section.bullets)>> ELSE <<>>)
    \o (IF HasKey(section, "code")
        THEN <<CodeBlock(IF HasKey(section, "language") THEN section.language
                         ELSE DefaultLanguage, section.code)>>
        ELSE <<>>)

\* The body of the loop of build_adf: the blocks one section appends
SectionBlocks(section) ==
    (IF HasKey(section, "heading")
     THEN <<HeadingBlock(IF HasKey(section, "level") THEN section.level ELSE DefaultLevel,
                         section.heading)>>
     ELSE <<>>)
    \o (IF HasKey(section, "paragraph") THEN <<ParagraphBlock(section.paragraph)>> ELSE <<>>)
    \o (IF HasKey(section, "bullets") THEN <<BulletListBlock(section.bullets)>> ELSE <<>>)
    \o (IF HasKey(section, "code")
        THEN <<CodeBlock(IF HasKey(section, "language") THEN section.language
                         ELSE DefaultLanguage, section.code)>>
        ELSE <<>>)

RECURSIVE AdfContent(_)
AdfContent(sections) ==
    IF sections = <<>> THEN <<>>
    ELSE SectionBlocks(Head(sections)) \o AdfContent(Tail(sections))

Doc(content) == [type |-> "doc", version |-> 1, content |-> content]

\* build_adf(sections)
build_adf(sections) == Doc(AdfContent(sections))

\* Variant: the text is stripped
simple_adf_Stripped(text) == Doc(<<ParagraphBlock(Strip(text))>>)

\* simple_adf(text)
simple_adf(text) == Doc(<<[type |-> "paragraph", content |-> <<[type |-> "text", text |-> text]>>]>>)

--------------------------------------------------------------------------
(* Issue creation: the fields each creating function sends *)

\* fields['name'] = value when the condition holds
Optional(cond, name, value) == IF cond THEN (name :> value) ELSE EmptyObject

\* jira-issues/scripts/create-one.py: create_issue(summary, 'Story', description, parent_key)
create_issue_create_one(summary, description, parent_key) ==
    [project |-> "PROJECT_KEY", issuetype |-> "Story", summary |-> summary]
    @@ Optional(description # <<>>, "description", Doc(<<ParagraphBlock(description)>>))
    @@ Optional(parent_key # <<>>, "parent", parent_key)

\* templates/python-jira-utils.py
create_epic(summary, description_sections) ==
    [project |-> "PROJECT_KEY", issuetype |-> "Epic", summary |-> summary,
     description |-> build_adf(description_sections)]

create_story(summary, description_sections, parent_epic_key) ==
    [project |-> "PROJECT_KEY", issuetype |-> "Story", summary |-> summary,
     description |-> build_adf(description_sections)]
    @@ Optional(parent_epic_key # <<>>, "parent", parent_epic_key)

create_subtask(parent_key, summary) ==
    [project |-> "PROJECT_KEY", issuetype |-> "Subtask", parent |-> parent_key,
     summary |-> summary]

--------------------------------------------------------------------------
(* The transition lookups *)

\* jira-transitions/scripts/workflow-demo.py, transition_to: the first
\* transition whose destination status or whose name is the target ignoring
\* case, as <<t>>, or None
RECURSIVE transition_to_lookup(_, _)
transition_to_lookup(transitions, target_status) ==
    IF transitions = <<>> THEN None
    ELSE IF \/ Lower(Head(transitions).to.name) = Lower(target_status)
            \/ Lower(Head(transitions).name) = Lower(target_status)
         THEN <<Head(transitions)>>
         ELSE transition_to_lookup(Tail(transitions), target_status)

\* jira-auth/scripts/test.py, test_transition_to_done: the first transition
\* whose destination status is 'done' ignoring case
RECURSIVE test_transition_to_done_lookup(_)
test_transition_to_done_lookup(transitions) ==
    IF transitions = <<>> THEN None
    ELSE IF Lower(Head(transitions).to.name) = <<"d", "o", "n", "e">>
         THEN <<Head(transitions)>>
         ELSE test_transition_to_done_lookup(Tail(transitions))

TargetProgressing == <<"P", "r", "o", "g", "r", "e", "s", "s", "i", "n", "g">>
TargetDone == <<"D", "o", "n", "e">>
TargetToDo == <<"T", "o", " ", "D", "o">>

\* A transition named Done that leads to another status, and one that leads
\* to the status written in capitals
TDoneNamed == Transition("41", <<"D", "o", "n", "e">>, <<"C", "l", "o", "s", "e", "d">>)
TFinish == Transition("51", <<"F", "i", "n", "i", "s", "h">>, <<"D", "O", "N", "E">>)

--------------------------------------------------------------------------
(* jira-issues/scripts/create-one.py *)

\* The arguments main passes to create_issue
CreateOneSummary ==
    <<"[", "T", "e", "s", "t", "-", "P", "y", "t", "h", "o", "n", "]", " ", "S", "t", "o", "r", "y", " ", "c", "r", "e", "a", "t", "e", "d", " ", "f", "r", "o", "m", " ", "P", "y", "t", "h", "o", "n", " ", "s", "c", "r", "i", "p", "t">>
CreateOneDescription ==
    <<"T", "h", "i", "s", " ", "i", "s", " ", "a", " ", "t", "e", "s", "t", " ", "s", "t", "o", "r", "y", " ", "c", "r", "e", "a", "t", "e", "d", " ", "b", "y", " ", "t", "h", "e", " ", "P", "y", "t", "h", "o", "n", " ", "J", "i", "r", "a", " ", "s", "c", "r", "i", "p", "t", ".">>

\* The status the issue of a run has on the remote
StatusToDo == <<"T", "o", " ", "D", "o">>

\* GET /issue/{key}?fields=...: the issue with the status the remote holds
IssueDoc(status) == [fields |-> [status |-> [name |-> status], summary |-> <<"s">>]]

IssueResponses ==
    BulkAnswers([status |-> 200, body |-> JsonBody(IssueDoc(remote.status))],
                {[status |-> 200, body |-> JsonBody(EmptyObject)]}
                \cup OddResponses \cup ErrorResponses)

\* The text of the exception a failed step leaves: the message of the helper,
\* or the name of the error raised on the value it returned
FailureText(res) == IF res.kind = "raise" THEN res.msg ELSE <<"K", "e", "y", "E", "r", "r", "o", "r">>

\* A value that is a JSON object with the members named
HasMembers(res, names) ==
    /\ res.kind = "return" /\ res.value # None
    /\ names \subseteq DOMAIN res.value[1]

\* main: create_issue(...) and the lines on the created story
CreateOnePost ==
    /\ script = "create-one" /\ pc = "main"
    /\ \E a \in CreateResponses(1) :
         LET r == a[1]
             res == make_request_create_one(r)
         IN
         /\ resp' = r
         /\ remote' = a[2]
         /\ result' = res
         /\ helper' = "create-one"
         /\ requests' = Append(requests,
                               Req("POST", "jira", "/issue", <<>>,
                                   <<create_issue_create_one(CreateOneSummary,
                                                             CreateOneDescription, <<>>)>>))
         /\ IF HasMembers(res, {"key", "id"})
            THEN /\ out' = out \o <<Say("Creating test story in backlog..."),
                                    Say("[OK] Story created successfully!"),
                                    Line("Key:", res.value[1].key)>>
                 /\ locals' = [issue_key |-> res.value[1].key]
                 /\ pc' = "status"
                 /\ UNCHANGED exitCode
            ELSE \* except Exception as e: print; main returns
                 /\ out' = out \o <<Say("Creating test story in backlog..."),
                                    Line("[FAIL] Error:", FailureText(res))>>
                 /\ pc' = "exit" /\ exitCode' = 0
                 /\ UNCHANGED locals
    /\ UNCHANGED <<script, argv, stdin>>
    /\ UNCHANGED envVars

\* main: the status of the created story
CreateOneStatus ==
    /\ script = "create-one" /\ pc = "status"
    /\ \E a \in IssueResponses :
         LET r == a[1]
             res == make_request_create_one(r)
         IN
         /\ resp' = r
         /\ remote' = a[2]
         /\ result' = res
         /\ helper' = "create-one"
         /\ requests' = Append(requests, Req("GET", "jira", "/issue", locals.issue_key, None))
         /\ IF HasMembers(res, {"fields"})
            THEN out' = Append(out, Line("Status:", res.value[1].fields.status.name))
            ELSE out' = Append(out, Line("[FAIL] Error:", FailureText(res)))
         /\ pc' = "exit" /\ exitCode' = 0
    /\ UNCHANGED <<script, argv, stdin, locals>>
    /\ UNCHANGED envVars

--------------------------------------------------------------------------
(* jira-auth/scripts/test.py *)

TestUserDoc == [displayName |-> <<"A", "n", "n">>, emailAddress |-> <<"a", "@", "x">>,
                accountId |-> <<"7">>]
ProjectDoc == [name |-> <<"P">>, key |-> <<"S">>, id |-> <<"1">>]
IssueTypesDoc == <<[name |-> <<"S", "t", "o", "r", "y">>, id |-> <<"3">>]>>

\* The summary test_create_issue sends
TestSummary ==
    <<"[", "T", "e", "s", "t", "-", "P", "y", "t", "h", "o", "n", "]", " ", "J", "i", "r", "a", " ", "A", "P", "I", " ", "t", "e", "s", "t", " ", "f", "r", "o", "m", " ", "P", "y", "t", "h", "o", "n", " ", "s", "c", "r", "i", "p", "t">>

\* The answers to a request of the suite: the documented one or a faulty one
TestAnswers(good) ==
    BulkAnswers([status |-> 200, body |-> JsonBody(good)],
                {[status |-> 200, body |-> JsonBody(EmptyObject)]}
                \cup OddResponses \cup ErrorResponses)

\* except Exception as e: all_passed = False; the closing banner; main returns
TestFailed(res) ==
    /\ out' = out \o <<Line("[FAIL] Test failed:", FailureText(res)), Say("SOME TESTS FAILED")>>
    /\ pc' = "exit" /\ exitCode' = 0
    /\ UNCHANGED locals

\* One step of the suite that sends a GET and prints what it read
TestGet(from, to, path, key, good, members, line) ==
    /\ script = "test" /\ pc = from
    /\ \E a \in TestAnswers(good) :
         LET r == a[1]
             res == make_request_test(r)
         IN
         /\ resp' = r
         /\ remote' = a[2]
         /\ result' = res
         /\ helper' = "test"
         /\ requests' = Append(requests, Req("GET", "jira", path, key, None))
         /\ IF HasMembers(res, members)
            THEN /\ out' = Append(out, Say(line))
                 /\ pc' = to
                 /\ UNCHANGED <<exitCode, locals>>
            ELSE TestFailed(res)
    /\ UNCHANGED <<script, argv, stdin>>
    /\ UNCHANGED envVars

TestAuthentication ==
    TestGet("main", "test2", "/myself", <<>>, TestUserDoc,
            {"displayName", "emailAddress", "accountId"}, "[OK] Authenticated as:")

TestGetProject ==
    TestGet("test2", "test3", "/project", config.project_key[1], ProjectDoc,
            {"name", "key", "id"}, "[OK] Project:")

\* test_get_issue_types: the answer is a list
TestGetIssueTypes ==
    /\ script = "test" /\ pc = "test3"
    /\ \E a \in TestAnswers(IssueTypesDoc) :
         LET r == a[1]
             res == make_request_test(r)
             ok == res.kind = "return" /\ res.value # None /\ res.value[1] # EmptyObject
         IN
         /\ resp' = r
         /\ remote' = a[2]
         /\ result' = res
         /\ helper' = "test"
         /\ requests' = Append(requests, Req("GET", "jira", "/issuetype/project", ProjectDoc.id, None))
         /\ IF ok
            THEN /\ out' = Append(out, Line("[OK] Found issue types:", <<Len(res.value[1])>>))
                 /\ pc' = "test4"
                 /\ UNCHANGED <<exitCode, locals>>
            ELSE TestFailed(res)
    /\ UNCHANGED <<script, argv, stdin>>
    /\ UNCHANGED envVars

TestCreateIssue ==
    /\ script = "test" /\ pc = "test4"
    /\ \E a \in CreateResponses(1) :
         LET r == a[1]
             res == make_request_test(r)
         IN
         /\ resp' = r
         /\ remote' = a[2]
         /\ result' = res
         /\ helper' = "test"
         /\ requests' = Append(requests,
                               Req("POST", "jira", "/issue", <<>>,
                                   <<[project |-> "PROJECT_KEY", issuetype |-> "Story",
                                      summary |-> TestSummary]>>))
         /\ IF HasMembers(res, {"key"})
            THEN /\ out' = Append(out, Line("[OK] Created issue:", res.value[1].key))
                 /\ locals' = [issue_key |-> res.value[1].key, transitions |-> <<>>]
                 /\ pc' = "test5"
                 /\ UNCHANGED exitCode
            ELSE TestFailed(res)
    /\ UNCHANGED <<script, argv, stdin>>
    /\ UNCHANGED envVars

TestGetTransitions ==
    /\ script = "test" /\ pc = "test5"
    /\ \E a \in TransitionsResponses :
         LET r == a[1]
             res == make_request_test(r)
         IN
         /\ resp' = r
         /\ remote' = a[2]
         /\ result' = res
         /\ helper' = "test"
         /\ requests' = Append(requests, Req("GET", "jira", "/issue/transitions", locals.issue_key, None))
         /\ IF HasMembers(res, {"transitions"})
            THEN /\ out' = Append(out, Line("[OK] Found transitions:",
                                            <<Len(res.value[1].transitions)>>))
                 /\ locals' = [locals EXCEPT !.transitions = res.value[1].transitions]
                 /\ pc' = "test6"
                 /\ UNCHANGED exitCode
            ELSE TestFailed(res)
    /\ UNCHANGED <<script, argv, stdin>>
    /\ UNCHANGED envVars

\* The remote after a transition POST it accepted: the issue has the
\* destination status of the transition
Transitioned(rem, id) ==
    IF \E i \in 1..Len(rem.transitions) : rem.transitions[i].id = id
    THEN LET i == CHOOSE i \in 1..Len(rem.transitions) : rem.transitions[i].id = id
         IN [rem EXCEPT !.status = rem.transitions[i].to.name]
    ELSE rem

\* test_transition_to_done(issue_key, transitions)
TestTransitionToDone ==
    /\ script = "test" /\ pc = "test6"
    /\ LET done_transition == test_transition_to_done_lookup(locals.transitions) IN
       IF done_transition = None
       THEN \* return False: the result is not looked at
            /\ out' = Append(out, Say("[FAIL] No Done transition available"))
            /\ pc' = "test7"
            /\ UNCHANGED <<exitCode, locals, requests, remote>>
            /\ UNCHANGED reqVars
       ELSE \E a \in PostTransitionResponses :
              LET r == a[1]
                  res == make_request_test(r)
              IN
              /\ resp' = r
              /\ remote' = IF r.status = 204 THEN Transitioned(a[2], done_transition[1].id)
                           ELSE a[2]
              /\ result' = res
              /\ helper' = "test"
              /\ requests' = Append(requests,
                                    Req("POST", "jira", "/issue/transitions", locals.issue_key,
                                        <<[transition |-> [id |-> done_transition[1].id]]>>))
              /\ IF res.kind = "raise"
                 THEN /\ out' = out \o <<Line("Using transition:", done_transition[1].id),
                                         Line("[FAIL] Test failed:", FailureText(res)),
                                         Say("SOME TESTS FAILED")>>
                      /\ pc' = "exit" /\ exitCode' = 0
                      /\ UNCHANGED locals
                 ELSE /\ out' = out \o <<Line("Using transition:", done_transition[1].id),
                                         Line("[OK] Issue transitioned to Done", locals.issue_key)>>
                      /\ pc' = "test7"
                      /\ UNCHANGED <<exitCode, locals>>
    /\ UNCHANGED <<script, argv, stdin>>
    /\ UNCHANGED envVars

\* test_verify_status(issue_key) and the closing banner
TestVerifyStatus ==
    /\ script = "test" /\ pc = "test7"
    /\ \E a \in IssueResponses :
         LET r == a[1]
             res == make_request_test(r)
         IN
         /\ resp' = r
         /\ remote' = a[2]
         /\ result' = res
         /\ helper' = "test"
         /\ requests' = Append(requests, Req("GET", "jira", "/issue", locals.issue_key, None))
         /\ IF HasMembers(res, {"fields"})
            THEN out' = out \o <<Line("[OK] Issue status:", res.value[1].fields.status.name),
                                 Say("ALL TESTS PASSED")>>
            ELSE out' = out \o <<Line("[FAIL] Test failed:", FailureText(res)),
                                 Say("SOME TESTS FAILED")>>
         /\ pc' = "exit" /\ exitCode' = 0
    /\ UNCHANGED <<script, argv, stdin, locals>>
    /\ UNCHANGED envVars

--------------------------------------------------------------------------
(* jira-transitions/scripts/workflow-demo.py *)

\* sys.argv[1]: the actions of the script
ActDemo == <<"d", "e", "m", "o">>
ActStart == <<"s", "t", "a", "r", "t">>
ActComplete == <<"c", "o", "m", "p", "l", "e", "t", "e">>
ActReopen == <<"r", "e", "o", "p", "e", "n">>
ActStatus == <<"s", "t", "a", "t", "u", "s">>
ActHelp == <<"h", "e", "l", "p">>

\* The target status of the actions that transition the issue
TargetOf(action) ==
    CASE action = ActStart -> TargetProgressing
      [] action = ActComplete -> TargetDone
      [] action = ActReopen -> TargetToDo

CommentResponses ==
    BulkAnswers([status |-> 201, body |-> JsonBody([id |-> <<"9">>])],
                OddResponses \cup ErrorResponses)

\* Variant: the comment is posted after an error too
WfError_CommentAnyway(res) ==
    /\ out' = Append(out, Line("Error:", FailureText(res)))
    /\ pc' = "add_comment"
    /\ UNCHANGED <<exitCode, locals>>

\* main: except Exception as e: print(f'Error: {e}'); sys.exit(1)
WfError(res) ==
    /\ out' = Append(out, Line("Error:", FailureText(res)))
    /\ pc' = "exit" /\ exitCode' = 1
    /\ UNCHANGED locals

\* Variant: step 5 of run_demo transitions with the id step 3 looked up
WfContinue_ReuseTransition(lines) ==
    IF locals.action = ActDemo /\ locals.step = 3 /\ locals.transition_id # ""
    THEN /\ out' = out \o lines
         /\ locals' = [locals EXCEPT !.step = 5]
         /\ pc' = "do_transition"
         /\ UNCHANGED exitCode
    ELSE IF locals.action = ActDemo
    THEN /\ out' = out \o lines
         /\ locals' = [locals EXCEPT !.step = IF locals.step = 3 THEN 5 ELSE 6]
         /\ pc' = "get_issue"
         /\ UNCHANGED exitCode
    ELSE /\ out' = out \o lines
         /\ pc' = "exit" /\ exitCode' = 0
         /\ UNCHANGED locals

\* What follows transition_to and the comment: the end of main for the
\* single actions, the next step of run_demo otherwise
WfContinue(lines) ==
    IF locals.action = ActDemo
    THEN /\ out' = out \o lines
         /\ locals' = [locals EXCEPT !.step = IF locals.step = 3 THEN 5 ELSE 6]
         /\ pc' = "get_issue"
         /\ UNCHANGED exitCode
    ELSE /\ out' = out \o lines
         /\ pc' = "exit" /\ exitCode' = 0
         /\ UNCHANGED locals

\* main up to the first request
WfMain ==
    /\ script = "workflow-demo" /\ pc = "main"
    /\ IF argv = <<>>
       THEN /\ out' = Append(out, Say("Usage:"))
            /\ pc' = "exit" /\ exitCode' = 0
            /\ UNCHANGED locals
       ELSE LET action == argv[1]
                issue_key == IF Len(argv) > 1 THEN argv[2] ELSE <<>>
                loc == [action |-> action, issue_key |-> issue_key, step |-> 0,
                        target |-> <<>>, transition_id |-> ""]
            IN
            IF issue_key = <<>> /\ action # ActHelp
            THEN /\ out' = Append(out, Say("Error: Issue key required"))
                 /\ pc' = "exit" /\ exitCode' = 1
                 /\ UNCHANGED locals
            ELSE IF action = ActDemo
            THEN /\ out' = Append(out, Say("JIRA WORKFLOW DEMO (PYTHON)"))
                 /\ locals' = [loc EXCEPT !.step = 1]
                 /\ pc' = "get_issue"
                 /\ UNCHANGED exitCode
            ELSE IF action \in {ActStart, ActComplete, ActReopen}
            THEN /\ out' = Append(out, Line("Starting/Completing/Reopening", issue_key))
                 /\ locals' = [loc EXCEPT !.target = TargetOf(action)]
                 /\ pc' = "get_transitions"
                 /\ UNCHANGED exitCode
            ELSE IF action = ActStatus
            THEN /\ locals' = loc
                 /\ pc' = "get_issue"
                 /\ UNCHANGED <<out, exitCode>>
            ELSE /\ out' = Append(out, Line("Unknown action:", action))
                 /\ pc' = "exit" /\ exitCode' = 1
                 /\ UNCHANGED locals
    /\ UNCHANGED <<script, argv, stdin, requests, remote>>
    /\ UNCHANGED envVars
    /\ UNCHANGED reqVars

\* get_issue(issue_key) in show_status and in the steps 1, 3, 5, 6 of run_demo
WfGetIssue ==
    /\ script = "workflow-demo" /\ pc = "get_issue"
    /\ \E a \in IssueResponses :
         LET r == a[1]
             res == make_request_workflow_demo(r)
         IN
         /\ resp' = r
         /\ remote' = a[2]
         /\ result' = res
         /\ helper' = "workflow-demo"
         /\ requests' = Append(requests, Req("GET", "jira", "/issue", locals.issue_key, None))
         /\ IF ~HasMembers(res, {"fields"})
            THEN WfError(res)
            ELSE LET status == res.value[1].fields.status.name IN
                 IF locals.action = ActStatus
                 THEN /\ out' = Append(out, Line("status:", status))
                      /\ pc' = "exit" /\ exitCode' = 0
                      /\ UNCHANGED locals
                 ELSE IF locals.step = 1
                 THEN /\ out' = Append(out, Line("Initial status:", status))
                      /\ locals' = [locals EXCEPT !.step = 2]
                      /\ pc' = "show_transitions"
                      /\ UNCHANGED exitCode
                 ELSE IF locals.step \in {3, 5}
                 THEN /\ out' = Append(out, Line("Current status:", status))
                      /\ locals' = [locals EXCEPT !.target = IF locals.step = 3
                                                             THEN TargetProgressing
                                                             ELSE TargetDone]
                      /\ pc' = "get_transitions"
                      /\ UNCHANGED exitCode
                 ELSE /\ out' = out \o <<Line("Final status:", status),
                                         Say("WORKFLOW DEMO COMPLETE")>>
                      /\ pc' = "exit" /\ exitCode' = 0
                      /\ UNCHANGED locals
    /\ UNCHANGED <<script, argv, stdin>>
    /\ UNCHANGED envVars

\* run_demo, step 2: the transitions are listed
WfShowTransitions ==
    /\ script = "workflow-demo" /\ pc = "show_transitions"
    /\ \E a \in TransitionsResponses :
         LET r == a[1]
             res == make_request_workflow_demo(r)
         IN
         /\ resp' = r
         /\ remote' = a[2]
         /\ result' = res
         /\ helper' = "workflow-demo"
         /\ requests' = Append(requests, Req("GET", "jira", "/issue/transitions", locals.issue_key, None))
         /\ IF ~HasMembers(res, {"transitions"})
            THEN WfError(res)
            ELSE /\ out' = Append(out, Line("Found transitions:", <<Len(res.value[1].transitions)>>))
                 /\ locals' = [locals EXCEPT !.step = 3]
                 /\ pc' = "get_issue"
                 /\ UNCHANGED exitCode
    /\ UNCHANGED <<script, argv, stdin>>
    /\ UNCHANGED envVars

\* transition_to(issue_key, target_status) up to the choice of the transition
WfGetTransitions ==
    /\ script = "workflow-demo" /\ pc = "get_transitions"
    /\ \E a \in TransitionsResponses :
         LET r == a[1]
             res == make_request_workflow_demo(r)
         IN
         /\ resp' = r
         /\ remote' = a[2]
         /\ result' = res
         /\ helper' = "workflow-demo"
         /\ requests' = Append(requests, Req("GET", "jira", "/issue/transitions", locals.issue_key, None))
         /\ IF ~HasMembers(res, {"transitions"})
            THEN WfError(res)
            ELSE LET transition == transition_to_lookup(res.value[1].transitions, locals.target) IN
                 IF transition = None
                 THEN \* return False: main goes on
                      WfContinue(<<Line("No transition available to", locals.target)>>)
                 ELSE /\ locals' = [locals EXCEPT !.transition_id = transition[1].id]
                      /\ pc' = "do_transition"
                      /\ UNCHANGED <<out, exitCode>>
    /\ UNCHANGED <<script, argv, stdin>>
    /\ UNCHANGED envVars

\* do_transition(issue_key, transition['id'])
WfDoTransition ==
    /\ script = "workflow-demo" /\ pc = "do_transition"
    /\ \E a \in PostTransitionResponses :
         LET r == a[1]
             res == make_request_workflow_demo(r)
         IN
         /\ resp' = r
         /\ remote' = IF r.status = 204 THEN Transitioned(a[2], locals.transition_id) ELSE a[2]
         /\ result' = res
         /\ helper' = "workflow-demo"
         /\ requests' = Append(requests,
                               Req("POST", "jira", "/issue/transitions", locals.issue_key,
                                   <<[transition |-> [id |-> locals.transition_id]]>>))
         /\ IF res.kind = "raise"
            THEN WfError(res)
            ELSE /\ pc' = "add_comment"
                 /\ UNCHANGED <<out, exitCode, locals>>
    /\ UNCHANGED <<script, argv, stdin>>
    /\ UNCHANGED envVars

\* add_comment(issue_key, ...) and the report of the transition
WfAddComment ==
    /\ script = "workflow-demo" /\ pc = "add_comment"
    /\ \E a \in CommentResponses :
         LET r == a[1]
             res == make_request_workflow_demo(r)
         IN
         /\ resp' = r
         /\ remote' = a[2]
         /\ result' = res
         /\ helper' = "workflow-demo"
         /\ requests' = Append(requests, Req("POST", "jira", "/issue/comment", locals.issue_key,
                                             <<Doc(<<ParagraphBlock(<<"c">>)>>)>>))
         /\ IF res.kind = "raise"
            THEN WfError(res)
            ELSE WfContinue(<<Line("transitioned to", locals.target)>>)
    /\ UNCHANGED <<script, argv, stdin>>
    /\ UNCHANGED envVars

--------------------------------------------------------------------------
(* jira-spaces/scripts/create-space.py *)

Digits == {"0", "1", "2", "3", "4", "5", "6", "7", "8", "9"}
UpperSet == {UpperLetters[i] : i \in 1..Len(UpperLetters)}

\* re.match(r'^[A-Z][A-Z0-9]*$', key): '$' also matches before a newline that
\* ends the text
MatchesSpaceKeyPattern(key) ==
    LET body == IF key # <<>> /\ key[Len(key)] = "\n" THEN SubSeq(key, 1, Len(key) - 1) ELSE key
    IN /\ body # <<>>
       /\ body[1] \in UpperSet
       /\ \A i \in 2..Len(body) : body[i] \in UpperSet \cup Digits

\* create_space(key, name, description): the body of the POST
create_space_data(key, name, description) ==
    [key |-> Upper(key), name |-> name, type |-> <<"g", "l", "o", "b", "a", "l">>]
    @@ Optional(description # <<>>, "description",
                [plain |-> [value |-> description, representation |-> "plain"]])

CreatedSpaceDoc(key) == SpaceDoc(key) @@ [id |-> <<"5">>]

CreateSpaceResponses(key) ==
    {[status |-> 200, body |-> JsonBody(CreatedSpaceDoc(key))],
     [status |-> 200, body |-> JsonBody(SpaceDoc(key))]}
    \cup OddResponses \cup ErrorResponses

\* main
CreateSpaceMain ==
    /\ script = "create-space" /\ pc = "main"
    /\ IF Len(argv) < 2 \/ InArgs(ArgHelp, argv) \/ InArgs(ArgH, argv)
       THEN /\ out' = Append(out, Say("usage"))
            /\ pc' = "exit"
            /\ exitCode' = IF InArgs(ArgHelp, argv) \/ InArgs(ArgH, argv) THEN 0 ELSE 1
            /\ UNCHANGED <<requests, locals>>
            /\ UNCHANGED reqVars
       ELSE LET space_key == Upper(argv[1])
                space_name == argv[2]
                description == IF Len(argv) > 2 THEN argv[3] ELSE <<>>
            IN
            IF ~MatchesSpaceKeyPattern(space_key)
            THEN /\ out' = Append(out, Say("Error: Space key must start with a letter and contain only uppercase letters and numbers."))
                 /\ pc' = "exit" /\ exitCode' = 1
                 /\ UNCHANGED <<requests, locals>>
                 /\ UNCHANGED reqVars
            ELSE \E r \in CreateSpaceResponses(space_key) :
                   LET res == confluence_request_create_space(r) IN
                   /\ resp' = r
                   /\ result' = res
                   /\ helper' = "create-space"
                   /\ requests' = Append(requests,
                                         Req("POST", "confluence", "/space", Upper(space_key),
                                             <<create_space_data(space_key, space_name, description)>>))
                   /\ locals' = [space_key |-> space_key]
                   /\ pc' = "exit"
                   /\ IF HasMembers(res, {"key", "name", "type", "id"})
                      THEN /\ out' = out \o <<Line("Creating space:", space_key),
                                              Say("Space created successfully!"),
                                              Line("Key:", res.value[1].key)>>
                           /\ exitCode' = 0
                      ELSE /\ out' = out \o <<Line("Creating space:", space_key)>>
                                     \o (IF res.kind = "return" /\ res.value # None
                                         THEN <<Say("Space created successfully!")>> ELSE <<>>)
                                     \o <<IF Contains(FailureText(res), <<"4", "0", "9">>)
                                          THEN Line("Error: Space already exists.", space_key)
                                          ELSE IF Contains(FailureText(res), <<"4", "0", "3">>)
                                          THEN Say("Error: You do not have permission to create spaces.")
                                          ELSE Line("Error creating space:", FailureText(res))>>
                           /\ exitCode' = 1
    /\ UNCHANGED <<script, argv, stdin, remote>>
    /\ UNCHANGED envVars

--------------------------------------------------------------------------
(* Initial states *)

\* Environment values and environment-file lines of the runs
Val(c) == <<c>>
EnvLine(key, value) == key \o <<"=">> \o value

FullEnv == (JIRA_EMAIL :> Val("e")) @@ (JIRA_API_TOKEN :> Val("t")) @@ (JIRA_BASE_URL :> Val("u"))
NoEmailEnv == (JIRA_API_TOKEN :> Val("t")) @@ (JIRA_BASE_URL :> Val("u"))
EmptyTokenEnv == (JIRA_EMAIL :> Val("e")) @@ (JIRA_API_TOKEN :> <<>>) @@ (JIRA_BASE_URL :> Val("u"))

NoFile == [exists |-> FALSE, lines |-> <<>>]
File(lines) == [exists |-> TRUE, lines |-> lines]

\* The environments a run starts in: complete, completed by the file, a
\* credential missing, a credential empty, and a file line load_env fails on
RunSetups ==
    {<<FullEnv, NoFile>>,
     <<NoEmailEnv, File(<<EnvLine(JIRA_EMAIL, Val("f")), EnvLine(JIRA_PROJECT_KEY, Val("P"))>>)>>,
     <<NoEmailEnv, NoFile>>,
     <<EmptyTokenEnv, File(<<EnvLine(JIRA_API_TOKEN, Val("f"))>>)>>,
     <<FullEnv, File(<<EnvLine(<<>>, Val("f"))>>)>>,
     <<NoEmailEnv, File(<<EnvLine(<<>>, Val("f"))>>)>>}

SpaceKeyArgs == {<<"d", "o", "c", "s">>, <<"1", "D", "O", "C">>}

\* The display name given to create-space
SpaceName == <<"D", "o", "c", "s">>

\* sys.argv[1:] of each script
ArgvOf(s) ==
    CASE s = "delete-all" -> {<<>>, <<ArgConfirm>>}
      [] s = "delete-space" ->
            {<<>>, <<ArgHelp>>, <<ArgConfirm>>}
            \cup {<<k>> : k \in SpaceKeyArgs}
            \cup {<<k, ArgConfirm>> : k \in SpaceKeyArgs}
            \cup {<<k, ArgH>> : k \in SpaceKeyArgs}
      [] s = "create-space" ->
            {<<>>, <<ArgHelp>>}
            \cup {<<k>> : k \in SpaceKeyArgs}
            \cup {<<k, SpaceName>> : k \in SpaceKeyArgs \cup {<<"d", "\n">>, <<"d", "-", "x">>}}
            \cup {<<k, SpaceName, <<"t">>>> : k \in SpaceKeyArgs}
            \cup {<<k, SpaceName, ArgH>> : k \in SpaceKeyArgs}
      [] s = "workflow-demo" ->
            {<<>>, <<ActDemo>>, <<ActHelp>>, <<<<"r", "u", "n">>, IssueKey(1)>>}
            \cup {<<a, IssueKey(1)>> : a \in {ActDemo, ActStart, ActComplete, ActReopen, ActStatus}}
      [] OTHER -> {<<>>}

\* The line input() reads (None: end of input)
Answers == {<<"y", "e", "s">>, <<"y">>, <<"Y", "E", "S">>, <<"n", "o">>, <<>>, <<"y", "e", "s", "!">>}

StdinOf(s) == IF s = "delete-space" THEN {None} \cup {<<a>> : a \in Answers} ELSE {None}

NoLocals == [f \in {} |-> 0]

\* The remote a run starts against: the workflow of the project, for the
\* scripts that transition issues, and the status of the issue they work on
RemotesOf(s) ==
    CASE s = "bulk-create" -> {[faults |-> 0, transitions |-> ts] : ts \in TransitionLists}
      [] s \in {"create-one", "test", "workflow-demo"} ->
            {[faults |-> 0, transitions |-> ts, status |-> StatusToDo] :
                ts \in IF s = "create-one" THEN {<<>>}
                       ELSE TransitionLists \cup {<<TDoneNamed>>}}
      [] OTHER -> {[faults |-> 0, transitions |-> <<>>]}

\* No helper call is in progress
InitReq ==
    /\ helper = ""
    /\ resp = [status |-> 0, body |-> TextBody(<<>>)]
    /\ result = NoCall

Init ==
    /\ InitReq
    /\ \E setup \in RunSetups :
         /\ environ = setup[1]
         /\ environ0 = setup[1]
         /\ envFile = setup[2]
    /\ config = NoConfig
    /\ script \in Scripts
    /\ argv \in ArgvOf(script)
    /\ stdin \in StdinOf(script)
    /\ pc = "load_env"
    /\ requests = <<>>
    /\ out = <<>>
    /\ exitCode = -1
    /\ locals = NoLocals
    /\ remote \in RemotesOf(script)

Next ==
    \/ LoadEnv
    \/ Validate
    \/ TemplateMain
    \/ DeleteAllSearch
    \/ DeleteAllDelete
    \/ DeleteSpaceLookup
    \/ DeleteSpacePrompt
    \/ DeleteSpaceDelete
    \/ BulkStart
    \/ BulkCreateIssue
    \/ BulkGetTransitions
    \/ BulkPostTransition
    \/ CreateOnePost
    \/ CreateOneStatus
    \/ TestAuthentication
    \/ TestGetProject
    \/ TestGetIssueTypes
    \/ TestCreateIssue
    \/ TestGetTransitions
    \/ TestTransitionToDone
    \/ TestVerifyStatus
    \/ WfMain
    \/ WfGetIssue
    \/ WfShowTransitions
    \/ WfGetTransitions
    \/ WfDoTransition
    \/ WfAddComment
    \/ CreateSpaceMain

Spec == Init /\ [][Next]_vars

--------------------------------------------------------------------------
(* The body of a request: json.dumps(data).encode('utf-8') if data else None *)

\* A JSON value handed to a helper: an object (members name: text) or a list
\* (of texts); an item of a list has no name
JsonMember(name, value) == [name |-> name, value |-> value]
JsonObject(members) == [kind |-> "object", items |-> members]
JsonArray(texts) == [kind |-> "array", items |-> [i \in 1..Len(texts) |-> JsonMember(<<>>, texts[i])]]

\* json.dumps of one character of a string (ensure_ascii: a character outside
\* ASCII is written as its \u escape)
EscapeChar(c) ==
    CASE c = "\"" -> <<"\\", "\"">>
      [] c = "\\" -> <<"\\", "\\">>
      [] c = "\n" -> <<"\\", "n">>
      [] c = "é" -> <<"\\", "u", "0", "0", "e", "9">>
      [] OTHER -> <<c>>

RECURSIVE EscapeText(_)
EscapeText(text) ==
    IF text = <<>> THEN <<>> ELSE EscapeChar(Head(text)) \o EscapeText(Tail(text))

\* json.dumps of a string
DumpString(text) == <<"\"">> \o EscapeText(text) \o <<"\"">>

\* The items of an object or a list, separated by ', '
RECURSIVE DumpItems(_, _)
DumpItems(kind, items) ==
    IF items = <<>> THEN <<>>
    ELSE (IF kind = "object" THEN DumpString(Head(items).name) \o <<":", " ">> ELSE <<>>)
         \o DumpString(Head(items).value)
         \o (IF Len(items) > 1 THEN <<",", " ">> ELSE <<>>)
         \o DumpItems(kind, Tail(items))

\* json.dumps(data).encode('utf-8'): the output of json.dumps is ASCII, which
\* UTF-8 encodes byte for character
json_dumps(data) ==
    IF data.kind = "object"
    THEN <<"{">> \o DumpItems("object", data.items) \o <<"}">>
    ELSE <<"[">> \o DumpItems("array", data.items) \o <<"]">>

\* `if data`: None, an object without members and an empty list are false
TruthyData(data) == data # None /\ data[1].items # <<>>

\* The body of the Request the helper h builds for `data`; make_request of
\* check-fields takes no data and sends none
RequestBody(h, data) ==
    IF h # "check-fields" /\ TruthyData(data) THEN <<json_dumps(data[1])>> ELSE None

--------------------------------------------------------------------------
(* One call of a request helper on every kind of response *)

\* Longest response body
MaxBodyLen == 320

BodyLens == {0, 1, BodyLimit200 - 1, BodyLimit200, BodyLimit200 + 1,
             BodyLimit300, BodyLimit300 + 1, MaxBodyLen}

\* Error bodies are text; a success body is text (no JSON) or a JSON document
HelperInputs ==
    {[status |-> s, body |-> TextBody(Repeat("x", n))] :
        s \in ErrorStatuses \cup SuccessStatuses, n \in BodyLens}
    \cup {[status |-> s, body |-> JsonBody(d)] :
            s \in SuccessStatuses, d \in {EmptyObject, [key |-> IssueKey(1)]}}

IdleEnv ==
    /\ environ = FullEnv
    /\ environ0 = FullEnv
    /\ envFile = NoFile
    /\ config = NoConfig

\* The values of the data argument: none, an empty object, an empty list, an
\* object and a list with members
DataChoices ==
    {None, <<JsonObject(<<>>)>>, <<JsonArray(<<>>)>>,
     <<JsonObject(<<JsonMember(<<"k">>, <<"a", "\"", "é">>), JsonMember(<<"n">>, <<>>)>>)>>,
     <<JsonArray(<<<<"a">>, <<"b", "\n">>>>)>>}

InitRequest ==
    /\ helper \in Helpers
    /\ resp \in HelperInputs
    /\ result = NoCall
    /\ pc = "call"
    /\ IdleEnv
    /\ script = ""
    /\ argv = <<>>
    /\ stdin = None
    /\ requests = <<>>
    /\ out = <<>>
    /\ exitCode = -1
    /\ \E data \in IF helper = "check-fields" THEN {None} ELSE DataChoices :
          locals = [data |-> data]
    /\ remote = [faults |-> 0, transitions |-> <<>>]

\* The helper is called: urlopen meets resp
HelperCall ==
    /\ pc = "call"
    /\ requests' = Append(requests, [body |-> RequestBody(helper, locals.data)])
    /\ result' = CallHelper(helper, resp)
    /\ pc' = "called"
    /\ UNCHANGED <<helper, resp>>
    /\ UNCHANGED envVars
    /\ UNCHANGED <<script, argv, stdin, out, exitCode, locals, remote>>

NextRequest == HelperCall

SpecRequest == InitRequest /\ [][NextRequest]_vars

--------------------------------------------------------------------------
(* Environment loading and validation on every environment and file *)

\* Largest number of lines of the environment file
MaxFileLines == 2

\* The process environments: each variable unset, or set to one of its values
EnvChoices ==
    [email : {None, <<<<>>>>, <<Val("e")>>},
     token : {None, <<Val("t")>>},
     base_url : {None, <<<<>>>>, <<Val("u")>>},
     project_key : {None, <<<<>>>>, <<Val("K")>>},
     board_id : {None, <<Val("7")>>}]

Binding(key, choice) == IF choice = None THEN <<>> ELSE <<<<key, choice[1]>>>>

\* The function that maps the first member of each pair to the second
RECURSIVE EnvOf(_)
EnvOf(pairs) ==
    IF pairs = <<>> THEN [k \in {} |-> <<>>]
    ELSE (Head(pairs)[1] :> Head(pairs)[2]) @@ EnvOf(Tail(pairs))

ConfigEnvs ==
    {EnvOf(Binding(JIRA_EMAIL, c.email) \o Binding(JIRA_API_TOKEN, c.token)
           \o Binding(JIRA_BASE_URL, c.base_url) \o Binding(JIRA_PROJECT_KEY, c.project_key)
           \o Binding(JIRA_BOARD_ID, c.board_id)) : c \in EnvChoices}

\* The lines a file is made of: assignments, an assignment padded with
\* whitespace, a comment, an empty value, an empty name, a line without '=',
\* a value that holds '=', a blank line
FileLineChoices ==
    {EnvLine(JIRA_EMAIL, Val("f")),
     EnvLine(JIRA_API_TOKEN, Val("f")),
     EnvLine(JIRA_BASE_URL, <<"a", "=", "b">>),
     EnvLine(JIRA_PROJECT_KEY, Val("P")),
     EnvLine(JIRA_BOARD_ID, Val("9")),
     <<" ">> \o JIRA_EMAIL \o <<" ", "=", " ", "g", " ", "\n">>,
     <<"#">> \o EnvLine(JIRA_API_TOKEN, Val("h")),
     EnvLine(JIRA_BASE_URL, <<>>),
     EnvLine(<<>>, Val("f")),
     JIRA_EMAIL,
     <<" ">>}

SeqsUpTo(S, n) == UNION {[1..k -> S] : k \in 0..n}

ConfigFiles == {NoFile} \cup {File(lines) : lines \in SeqsUpTo(FileLineChoices, MaxFileLines)}

InitConfig ==
    /\ InitReq
    /\ environ \in ConfigEnvs
    /\ environ0 = environ
    /\ envFile \in ConfigFiles
    /\ config = NoConfig
    /\ script \in {"python-jira-utils", "bulk-create"}
    /\ argv = <<>>
    /\ stdin = None
    /\ pc = "load_env"
    /\ requests = <<>>
    /\ out = <<>>
    /\ exitCode = -1
    /\ locals = NoLocals
    /\ remote = [faults |-> 0, transitions |-> <<>>]

NextConfig == LoadEnv \/ Validate

SpecConfig == InitConfig /\ [][NextConfig]_vars

--------------------------------------------------------------------------
(* Properties *)

LastRequest == requests[Len(requests)]
LastLine == out[Len(out)]
HasLine(tag) == \E i \in 1..Len(out) : out[i].tag = tag
CountLines(tag) == Cardinality({i \in 1..Len(out) : out[i].tag = tag})
IsDelete(q) == q.method = "DELETE"
IsCreatePost(q) == q.method = "POST" /\ q.path = "/issue"
Destructive == script \in {"delete-all", "delete-space"}
Confirmed == InArgs(ArgConfirm, argv)
RequiredNames == {JIRA_EMAIL, JIRA_API_TOKEN, JIRA_BASE_URL}
MissingPrinted == HasLine("Required: JIRA_EMAIL, JIRA_API_TOKEN, JIRA_BASE_URL")

\* C1 as stated: in delete-all and delete-space a DELETE request is sent only
\* when --confirm was given or (delete-space) the typed answer is "yes".
C1_DeleteOnlyOnConfirmOrYes ==
    Destructive =>
        \A i \in 1..Len(requests) :
            IsDelete(requests[i]) =>
                \/ Confirmed
                \/ script = "delete-space" /\ stdin = <<<<"y", "e", "s">>>>

\* The answers delete-space takes as a confirmation: y or yes in any case
TypedYes ==
    /\ script = "delete-space"
    /\ stdin # None
    /\ stdin[1] \in {<<"y">>, <<"Y">>}
                    \cup {<<a, b, c>> : a \in {"y", "Y"}, b \in {"e", "E"}, c \in {"s", "S"}}

\* C1 amended: a DELETE request is sent only when --confirm was given or
\* (delete-space) the typed answer is y or yes in any letter case; without
\* either the run sends at most one request, the search GET (delete-all) or
\* the lookup GET (delete-space), and never ends other than by exit.
C1_DeleteOnlyOnConfirmOrTypedYes ==
    (Destructive /\ ~Confirmed /\ ~TypedYes) =>
        /\ \A i \in 1..Len(requests) : ~IsDelete(requests[i])
        /\ Len(requests) <= 1
        /\ \A i \in 1..Len(requests) :
              /\ requests[i].method = "GET"
              /\ requests[i].path = (IF script = "delete-all" THEN "/search/jql" ELSE "/space")
        /\ pc \in {"load_env", "validate", "main", "prompt", "exit"}

\* C1 witness: delete-space without --confirm, the operator answers "no":
\* the run has ended after the lookup GET alone, with "Deletion cancelled."
C1_Witness ==
    /\ script = "delete-space" /\ ~Confirmed /\ stdin = <<<<"n", "o">>>>
    /\ pc = "exit" /\ exitCode = 0
    /\ HasLine("Deletion cancelled.")
    /\ Len(requests) = 1 /\ requests[1].method = "GET"

CreatePosts == SelectSeq(requests, IsCreatePost)
Deletes == SelectSeq(requests, IsDelete)

\* C3: in bulk-create and in live delete-all the items are attempted once
\* each, in list order, whatever the earlier outcomes: the create POSTs (the
\* DELETEs) sent so far are those of a prefix of the list, no request is sent
\* twice, a run that has entered the loop ends only after the last item, and
\* the summary is printed only then.
C3_EveryItemAttemptedOnceInOrder ==
    /\ (script = "bulk-create" /\ "commits" \in DOMAIN locals) =>
          LET n == Len(locals.commits) IN
          /\ Len(CreatePosts) <= n
          /\ \A k \in 1..Len(CreatePosts) :
                CreatePosts[k].data[1].summary = Take(locals.commits[k], SummaryLimit)
          /\ \A a, b \in 1..Len(requests) : requests[a] = requests[b] => a = b
          /\ HasLine("SUMMARY") => (pc = "exit" /\ Len(CreatePosts) = n)
          /\ (pc = "exit" /\ n > 0) => (Len(CreatePosts) = n /\ HasLine("SUMMARY"))
    /\ (script = "delete-all" /\ Confirmed /\ "issues" \in DOMAIN locals) =>
          LET n == Len(locals.issues) IN
          /\ Len(Deletes) <= n
          /\ \A k \in 1..Len(Deletes) : Deletes[k].key = locals.issues[k].key
          /\ \A a, b \in 1..Len(requests) : requests[a] = requests[b] => a = b
          /\ HasLine("SUMMARY") => (pc = "exit" /\ Len(Deletes) = n)
          /\ pc = "exit" => (Len(Deletes) = n /\ HasLine("SUMMARY"))

\* C3 witness: a bulk-create run has ended after two failed items and later
\* successful ones, every item attempted.
C3_Witness ==
    /\ script = "bulk-create" /\ pc = "exit" /\ "commits" \in DOMAIN locals
    /\ Len(locals.commits) >= 4
    /\ Len(CreatePosts) = Len(locals.commits)
    /\ locals.failed = 2 /\ locals.created >= 2
    /\ out[3].tag = "[FAIL] Failed:"

\* The batch headers printed so far
BatchHeaders == SelectSeq(out, LAMBDA l : l.tag = "--- Processing batch")

\* C4: bulk-create cuts n summaries into ceil(n/5) consecutive batches of at
\* most 5 (sizes 5 and 2 for 7 summaries) and counts every item once, as
\* created or as failed: created + failed = n when the summary is printed; in
\* live delete-all, deleted + failed is the number of issues the search
\* returned.
C4_BatchesAndTallies ==
    /\ (script = "bulk-create" /\ "batch" \in DOMAIN locals) =>
          LET n == Len(locals.commits)
              i == locals.i
              batches == CHOOSE k \in 0..n : 5 * k >= n /\ 5 * (k - 1) < n
          IN
          /\ i % 5 = 0 /\ i < n
          /\ Len(locals.batch) = (IF n - i >= 5 THEN 5 ELSE n - i)
          /\ \A j \in 1..Len(locals.batch) : locals.batch[j] = locals.commits[i + j]
          /\ Len(BatchHeaders) = (i \div 5) + 1
          /\ \A k \in 1..Len(BatchHeaders) : BatchHeaders[k].text = <<k, batches>>
          /\ n = 7 => Len(locals.batch) = (IF i = 0 THEN 5 ELSE 2)
          /\ pc # "exit" => locals.created + locals.failed = i + locals.j - 1
          /\ HasLine("SUMMARY") =>
                /\ locals.created + locals.failed = n
                /\ Len(BatchHeaders) = batches
                /\ HasLine("Created:") /\ HasLine("Failed:")
                /\ \A l \in 1..Len(out) :
                      /\ out[l].tag = "Created:" => out[l].text = <<locals.created>>
                      /\ out[l].tag = "Failed:" => out[l].text = <<locals.failed>>
    /\ (script = "delete-all" /\ Confirmed /\ "issues" \in DOMAIN locals) =>
          /\ pc # "exit" => locals.deleted + locals.failed = locals.idx - 1
          /\ HasLine("SUMMARY") =>
                /\ locals.deleted + locals.failed = Len(locals.issues)
                /\ \A l \in 1..Len(out) :
                      /\ out[l].tag = "Deleted:" => out[l].text = <<locals.deleted>>
                      /\ out[l].tag = "Failed:" => out[l].text = <<locals.failed>>

\* C4 witness: a bulk-create run over 7 summaries has printed its summary
\* after 2 batches, with failures among the items.
C4_Witness ==
    /\ script = "bulk-create" /\ HasLine("SUMMARY")
    /\ Len(locals.commits) = 7
    /\ Len(BatchHeaders) = 2
    /\ locals.failed = 2 /\ locals.created = 5

\* C5: a request helper that meets an HTTP error status fails with an error
\* that carries the status and the first 200 or 300 characters of the body;
\* it never returns a value, None included.
C5_ErrorStatusRaises ==
    (pc = "called" /\ resp.status \in ErrorStatuses) =>
        /\ result.kind = "raise"
        /\ result.exc = "Exception"
        /\ \E n \in {200, 300} :
              result.msg = StatusText(resp.status) \o <<":", " ">> \o Take(resp.body.text, n)

\* The statuses each helper answers with None, without reading the body
NoContentStatuses(h) ==
    CASE h \in {"delete-space", "create-space"} -> {204, 202}
      [] h \in {"check-fields", "check-issues"} -> {}
      [] OTHER -> {204}

\* C7 as stated: every helper returns None without parsing on a 204 or a 202,
\* and parses the body as JSON on every other success status.
C7_NoneOn204And202 ==
    (pc = "called" /\ resp.status \in SuccessStatuses) =>
        IF resp.status \in {204, 202}
        THEN result = Return(None)
        ELSE result = JsonLoads(resp.body)

\* C7 amended: a helper returns None without parsing on the no-content
\* statuses it knows (204 and 202 in the Confluence helpers of delete-space
\* and create-space; 204 alone in the other helpers that have the case; none
\* in check-fields and check-issues) and parses the body as JSON on every
\* other success status: the parsed document, or a decode error when the body
\* is not JSON.
C7_NoneOnNoContentStatuses ==
    (pc = "called" /\ resp.status \in SuccessStatuses) =>
        IF resp.status \in NoContentStatuses(helper)
        THEN result = Return(None)
        ELSE IF "doc" \in DOMAIN resp.body
             THEN result = Return(<<resp.body.doc>>)
             ELSE result.kind = "raise" /\ result.exc = "JSONDecodeError"

\* C7 witness: the Confluence helper of create-space has met a 202 with an
\* empty body and returned None.
C7_Witness ==
    /\ pc = "called" /\ helper = "create-space"
    /\ resp.status = 202 /\ resp.body = TextBody(<<>>)
    /\ result = Return(None)

\* C6: no HTTP error is recovered from silently but the 404 on a delete: an
\* error answer to the lookup of delete-space makes the space absent only
\* when it is a 404, and an error answer to the search of delete-all reaches
\* the operator with its status and the truncated body.
C6_ErrorsReachOperator ==
    /\ (script = "delete-space" /\ HasLine("Error: Space not found.")
          /\ resp.status \in ErrorStatuses) => resp.status = 404
    /\ (script = "delete-all" /\ Len(requests) = 1 /\ resp.status \in ErrorStatuses) =>
          \E i \in 1..Len(out) :
              /\ out[i].tag = "Error:"
              /\ out[i].text = ErrorMessage(resp.status, resp.body, BodyLimit200)

\* The module level has run to its end: load_env() returned and the
\* credential check was made
Validated == config # NoConfig

\* What the file assigns to a name: the value of the first assignment line
AssignsTo(line, key) ==
    IsAssignment(Strip(line)) /\ Strip(SplitKey(Strip(line))) = key
FileSets(key) ==
    envFile.exists /\ \E i \in 1..Len(envFile.lines) : AssignsTo(envFile.lines[i], key)
FileValue(key) ==
    LET first == CHOOSE i \in 1..Len(envFile.lines) :
                    /\ AssignsTo(envFile.lines[i], key)
                    /\ \A j \in 1..(i - 1) : ~AssignsTo(envFile.lines[j], key)
    IN Strip(SplitValue(Strip(envFile.lines[first])))

\* The value a variable has for the program: the process environment first,
\* the file second; None when neither sets it
IsSet(key) == key \in DOMAIN environ0 \/ FileSets(key)
Effective(key) ==
    IF key \in DOMAIN environ0 THEN <<environ0[key]>>
    ELSE IF FileSets(key) THEN <<FileValue(key)>> ELSE None
EffectiveOr(key, default) == IF IsSet(key) THEN Effective(key) ELSE <<default>>

\* C8 as stated: the credential check fails with the missing-credentials
\* error exactly when one of JIRA_EMAIL, JIRA_API_TOKEN, JIRA_BASE_URL is set
\* neither in the process environment nor in the file.
C8_FailsIffCredentialUnset ==
    Validated => (MissingPrinted <=> \E k \in RequiredNames : ~IsSet(k))

\* C8 amended: the credential check fails with the missing-credentials error
\* exactly when one of JIRA_EMAIL, JIRA_API_TOKEN, JIRA_BASE_URL is set
\* neither in the process environment nor in the file, or is set to the
\* empty string; when all three are set and not empty it returns the record
\* of their values; an unset JIRA_PROJECT_KEY or JIRA_BOARD_ID never fails it.
C8_FailsIffCredentialUnsetOrEmpty ==
    Validated =>
        LET missing == \E k \in RequiredNames : ~IsSet(k) \/ Effective(k) = <<<<>>>> IN
        /\ missing <=> MissingPrinted
        /\ missing => (pc = "exit" /\ exitCode = 1)
        /\ ~missing =>
              /\ pc = "main" /\ exitCode = -1 /\ out = <<>>
              /\ config.email = Effective(JIRA_EMAIL)
              /\ config.token = Effective(JIRA_API_TOKEN)
              /\ config.base_url = Effective(JIRA_BASE_URL)
              /\ config.project_key # None /\ config.board_id # None

\* C8 witness: the three credentials are all set, one of them to the empty
\* string, and the check has failed.
C8_Witness ==
    /\ Validated /\ pc = "exit" /\ MissingPrinted
    /\ \A k \in RequiredNames : IsSet(k)
    /\ JIRA_BASE_URL \notin DOMAIN environ0
    /\ Effective(JIRA_BASE_URL) = <<<<>>>>

\* C9: load_env leaves every variable of the process environment as it was,
\* one set to the empty string included; the value the program reads is the
\* one of the environment, else the one of the file, else the default (SCRUM
\* for the project key, 1 for the board id).
C9_EnvironmentBeforeFileBeforeDefault ==
    /\ \A k \in DOMAIN environ0 : k \in DOMAIN environ /\ environ[k] = environ0[k]
    /\ Validated =>
          /\ config.email = Effective(JIRA_EMAIL)
          /\ config.token = Effective(JIRA_API_TOKEN)
          /\ config.base_url = Effective(JIRA_BASE_URL)
          /\ config.project_key = EffectiveOr(JIRA_PROJECT_KEY, <<"S", "C", "R", "U", "M">>)
          /\ config.board_id = EffectiveOr(JIRA_BOARD_ID, <<"1">>)

\* C9 witness: the environment sets the project key to the empty string and
\* lacks the e-mail address, the file assigns both: the program reads the
\* empty project key and the e-mail address of the file.
C9_Witness ==
    /\ pc = "main"
    /\ JIRA_PROJECT_KEY \in DOMAIN environ0 /\ environ0[JIRA_PROJECT_KEY] = <<>>
    /\ FileSets(JIRA_PROJECT_KEY) /\ FileValue(JIRA_PROJECT_KEY) # <<>>
    /\ config.project_key = <<<<>>>>
    /\ JIRA_EMAIL \notin DOMAIN environ0
    /\ config.email = <<FileValue(JIRA_EMAIL)>>
    /\ config.board_id = <<<<"1">>>>

\* C10: when a credential is missing (unset or empty) once the module level
\* is over, the run has printed the required variables and ended with a
\* non-zero exit code, and has sent no request.
C10_MissingCredentialExitsBeforeAnyRequest ==
    (/\ pc \notin {"load_env", "validate"}
     /\ \E k \in RequiredNames : k \notin DOMAIN environ \/ environ[k] = <<>>) =>
        /\ requests = <<>>
        /\ pc = "exit" /\ exitCode # 0
        /\ MissingPrinted

--------------------------------------------------------------------------
(* One call of each issue-creating function *)

Creators == {"bulk-create", "create-one", "create_epic", "create_story", "create_subtask"}

\* Longest summary
MaxSummaryLen == 300

\* A summary of n characters whose first and last characters stand out
SummaryOfLen(n) == [i \in 1..n |-> IF i = 1 THEN "h" ELSE IF i = n THEN "t" ELSE "x"]

SummaryLens == {0, 1, SummaryLimit - 1, SummaryLimit, SummaryLimit + 1, MaxSummaryLen}

\* The fields the creating function f sends for the arguments a
FieldsOf(f, a) ==
    CASE f = "bulk-create" -> create_issue_fields(a.summary)
      [] f = "create-one" -> create_issue_create_one(a.summary, a.description, a.parent_key)
      [] f = "create_epic" ->
            create_epic(a.summary, IF a.description = <<>> THEN <<>>
                                   ELSE <<Section(<<"paragraph">>, <<>>, 0, a.description,
                                                  <<>>, <<>>, <<>>)>>)
      [] f = "create_story" ->
            create_story(a.summary, IF a.description = <<>> THEN <<>>
                                    ELSE <<Section(<<"paragraph">>, <<>>, 0, a.description,
                                                   <<>>, <<>>, <<>>)>>, a.parent_key)
      [] f = "create_subtask" -> create_subtask(a.parent_key, a.summary)

InitCreate ==
    /\ helper \in Creators
    /\ resp = [status |-> 0, body |-> TextBody(<<>>)]
    /\ result = NoCall
    /\ pc = "call"
    /\ IdleEnv
    /\ script = ""
    /\ argv = <<>>
    /\ stdin = None
    /\ requests = <<>>
    /\ out = <<>>
    /\ exitCode = -1
    /\ \E n \in SummaryLens, d \in {<<>>, <<"d">>}, k \in {<<>>, IssueKey(1)} :
          /\ helper = "create_subtask" => k # <<>>
          /\ locals = [summary |-> SummaryOfLen(n), description |-> d, parent_key |-> k]
    /\ remote = [faults |-> 0, transitions |-> <<>>]

\* The creating function builds the body and hands it to its request helper
CreateCall ==
    /\ pc = "call"
    /\ requests' = Append(requests, Req("POST", "jira", "/issue", <<>>,
                                        <<FieldsOf(helper, locals)>>))
    /\ pc' = "called"
    /\ UNCHANGED <<helper, resp, result>>
    /\ UNCHANGED envVars
    /\ UNCHANGED <<script, argv, stdin, out, exitCode, locals, remote>>

NextCreate == CreateCall

SpecCreate == InitCreate /\ [][NextCreate]_vars

\* C11: the summary of every issue-creation body is the first 255 characters
\* of the summary given when that is longer than 255 characters, and the
\* summary given otherwise; no body carries more than 255 characters.
C11_SummaryCutTo255 ==
    (pc = "called" /\ helper \in Creators) =>
        LET sent == requests[Len(requests)].data[1].summary
            given == locals.summary
        IN
        /\ Len(given) > 255 => sent = SubSeq(given, 1, 255)
        /\ Len(given) <= 255 => sent = given
        /\ Len(sent) <= 255

--------------------------------------------------------------------------
(* The transition lookups, each on every list of transitions *)

\* Longest list of transitions
MaxTransitions == 3

LookupLists == SeqsUpTo({TStart, TClose, TReopen, TDoneNamed, TFinish}, MaxTransitions)

LookupScripts == {"workflow-demo", "bulk-create", "test"}

\* The targets each script looks up
LookupTargets(s) ==
    IF s = "workflow-demo" THEN {TargetProgressing, TargetDone, TargetToDo} ELSE {TargetDone}

\* The lookup of script s
LookupOf(s, transitions, target) ==
    CASE s = "workflow-demo" -> transition_to_lookup(transitions, target)
      [] s = "bulk-create" -> FindDone(transitions)
      [] s = "test" -> test_transition_to_done_lookup(transitions)

InitLookup ==
    /\ helper \in LookupScripts
    /\ resp = [status |-> 0, body |-> TextBody(<<>>)]
    /\ result = NoCall
    /\ pc = "call"
    /\ IdleEnv
    /\ script = ""
    /\ argv = <<>>
    /\ stdin = None
    /\ requests = <<>>
    /\ out = <<>>
    /\ exitCode = -1
    /\ \E l \in LookupLists, t \in LookupTargets(helper) :
          locals = [transitions |-> l, target |-> t]
    /\ remote = [faults |-> 0, transitions |-> <<>>]

\* The loop over the transitions runs
LookupCall ==
    /\ pc = "call"
    /\ result' = Return(LookupOf(helper, locals.transitions, locals.target))
    /\ pc' = "called"
    /\ UNCHANGED <<helper, resp>>
    /\ UNCHANGED envVars
    /\ UNCHANGED <<script, argv, stdin, requests, out, exitCode, locals, remote>>

NextLookup == LookupCall

SpecLookup == InitLookup /\ [][NextLookup]_vars

\* A transition matches a target by its name or by its destination status,
\* ignoring case
MatchesTarget(t, target) ==
    Lower(t.name) = Lower(target) \/ Lower(t.to.name) = Lower(target)

\* C12: each lookup selects the first transition of the list whose name or
\* whose destination status is the target ignoring case, and none when no
\* transition matches; for [Start->Progressing 11, Close->Done 21,
\* Reopen->To Do 31] and the target Done it selects the transition 21.
C12_FirstMatchByNameOrDestination ==
    (pc = "called" /\ helper \in LookupScripts) =>
        LET l == locals.transitions
            hits == {i \in 1..Len(l) : MatchesTarget(l[i], locals.target)}
        IN
        /\ hits = {} => result = Return(None)
        /\ hits # {} =>
              \E i \in hits : (\A j \in hits : i <= j) /\ result = Return(<<l[i]>>)
        /\ (l = <<TStart, TClose, TReopen>> /\ locals.target = TargetDone) =>
              (result.value # None /\ result.value[1].id = "21")

--------------------------------------------------------------------------
(* Properties of the runs that transition issues *)

IsTransitionPost(q) == q.method = "POST" /\ q.path = "/issue/transitions"
IsTransitionsGet(q) == q.method = "GET" /\ q.path = "/issue/transitions"
TransitionPosts == SelectSeq(requests, IsTransitionPost)

\* C13: a transition POST is sent right after a GET of the transitions of the
\* same issue, with an id of the list that GET returned: the list is fetched
\* after every earlier state-changing request for the issue, and no list
\* serves a second transition or another issue.
C13_TransitionFromFreshList ==
    [][(Len(requests') = Len(requests) + 1 /\ IsTransitionPost(requests'[Len(requests')])) =>
         LET post == requests'[Len(requests')] IN
         /\ Len(requests) > 0
         /\ IsTransitionsGet(requests[Len(requests)])
         /\ requests[Len(requests)].key = post.key
         /\ resp.status = 200 /\ IsJson(resp.body)
         /\ "transitions" \in DOMAIN resp.body.doc
         /\ \E i \in 1..Len(resp.body.doc.transitions) :
               resp.body.doc.transitions[i].id = post.data[1].transition.id
      ]_vars

\* C13 witness: a run of the demo has transitioned the issue twice, to
\* Progressing with the id 11 and to Done with the id 21.
C13_Witness ==
    /\ script = "workflow-demo" /\ pc = "exit" /\ exitCode = 0
    /\ Len(TransitionPosts) = 2
    /\ TransitionPosts[1].data[1].transition.id = "11"
    /\ TransitionPosts[2].data[1].transition.id = "21"
    /\ remote.status = TargetDone

\* The lines that report a transition as done
TransitionReports ==
    {"-> transitioned to Done", "[OK] Issue transitioned to Done", "transitioned to"}

\* C14: a script prints that an issue was transitioned only once it has
\* fetched the issue again after the transition POST: the request that
\* precedes the report is a GET of that issue.
C14_StatusFetchedBeforeReport ==
    [][\A i \in (Len(out) + 1)..Len(out') :
          out'[i].tag \in TransitionReports =>
             /\ Len(requests') > 0
             /\ requests'[Len(requests')].method = "GET"
             /\ requests'[Len(requests')].path = "/issue"
      ]_vars

--------------------------------------------------------------------------
(* Properties of the space scripts *)

\* The run was given a key and no help flag
KeyGiven ==
    /\ Len(argv) >= (IF script = "create-space" THEN 2 ELSE 1)
    /\ ~InArgs(ArgHelp, argv) /\ ~InArgs(ArgH, argv)

\* C15: create-space and delete-space upper-case the key and validate it
\* against ^[A-Z][A-Z0-9]*$: a run whose key fails the pattern ends with exit
\* code 1 and sends no request, and every request carries the upper-cased key.
C15_KeyUpperCasedThenValidated ==
    (script \in {"create-space", "delete-space"} /\ KeyGiven) =>
        /\ \A i \in 1..Len(requests) : requests[i].key = Upper(argv[1])
        /\ ~MatchesSpaceKeyPattern(Upper(argv[1])) =>
              /\ requests = <<>>
              /\ pc = "exit" => exitCode = 1

--------------------------------------------------------------------------
(* Exit codes *)

\* The run printed the failure of an issue creation (create-one), of a step
\* of the suite (test.py) or of a transition lookup (workflow-demo start,
\* complete, reopen)
FailureReported ==
    \/ script = "create-one" /\ HasLine("[FAIL] Error:")
    \/ script = "test" /\ HasLine("SOME TESTS FAILED")
    \/ /\ script = "workflow-demo" /\ Len(argv) = 2
       /\ argv[1] \in {ActStart, ActComplete, ActReopen}
       /\ HasLine("No transition available to")

\* C16: a script ends with exit code 0 or 1, and with 1 whenever it failed:
\* a failed issue creation in create-one, a failed step of the test suite and
\* a workflow-demo transition whose target is not available all end with 1.
C16_FailureExitsOne ==
    pc = "exit" =>
        /\ exitCode \in {0, 1}
        /\ FailureReported => exitCode = 1

--------------------------------------------------------------------------
(* delete-all against a project of a known size *)

\* max_results of the one search main issues
SearchCap == 500

\* Largest number of issues in the project
MaxProjectIssues == 501

\* The project sizes of the runs: empty, small, and around the cap of a search
ProjectSizes == {0, 1, 2, SearchCap - 1, SearchCap, MaxProjectIssues}

\* The answer to the search on a project of `size` issues: at most
\* max_results of them, in key order, and the number that match
SearchAnswer(size, max_results) ==
    [status |-> 200,
     body |-> JsonBody(SearchDoc(IF size < max_results THEN size ELSE max_results, size))]

\* The answer to a DELETE that succeeds
Deleted == [status |-> 204, body |-> TextBody(<<>>)]

InitPurge ==
    /\ InitReq
    /\ environ = FullEnv /\ environ0 = FullEnv /\ envFile = NoFile
    /\ config = NoConfig
    /\ script = "delete-all"
    /\ argv \in ArgvOf(script)
    /\ stdin = None
    /\ pc = "load_env"
    /\ requests = <<>>
    /\ out = <<>>
    /\ exitCode = -1
    /\ locals = NoLocals
    /\ remote \in {[faults |-> 0, transitions |-> <<>>, issues |-> n] : n \in ProjectSizes}

PurgeSearch == DeleteAllSearchOn({SearchAnswer(remote.issues, SearchCap)})

PurgeDelete == DeleteAllDeleteOn({Deleted})

NextPurge ==
    \/ LoadEnv
    \/ Validate
    \/ PurgeSearch
    \/ PurgeDelete

SpecPurge == InitPurge /\ [][NextPurge]_vars

\* The run was live, has ended, and every DELETE it sent succeeded
PurgeDone ==
    /\ script = "delete-all" /\ Confirmed /\ pc = "exit" /\ exitCode = 0
    /\ locals.failed = 0

\* C17: a live delete-all sends a DELETE for every issue the project held at
\* the start, so a run in which every delete succeeds leaves no issue,
\* whatever the number of issues.
C17_EveryIssueDeleted ==
    PurgeDone =>
        /\ \A i \in 1..remote.issues : \E k \in 1..Len(requests) :
              IsDelete(requests[k]) /\ requests[k].key = IssueKey(i)
        /\ locals.deleted = remote.issues

--------------------------------------------------------------------------
(* One call of build_adf or simple_adf *)

\* Most sections of a call
MaxSections == 2

TextH == <<"H">>
TextP == <<" ", "p", " ">>
TextC == <<"c", "\n", "d">>
TwoBullets == <<<<"a">>, <<"b">>>>
LangJs == <<"j", "s">>

\* The sections of the calls: no key, each key alone, keys given in and against
\* the order of the blocks, an empty list of bullets, level and language
\* given or left to their defaults
SectionChoices ==
    {Section(<<>>, <<>>, 0, <<>>, <<>>, <<>>, <<>>),
     Section(<<"heading">>, TextH, 0, <<>>, <<>>, <<>>, <<>>),
     Section(<<"heading", "level">>, TextH, 3, <<>>, <<>>, <<>>, <<>>),
     Section(<<"level">>, <<>>, 3, <<>>, <<>>, <<>>, <<>>),
     Section(<<"paragraph">>, <<>>, 0, TextP, <<>>, <<>>, <<>>),
     Section(<<"paragraph", "heading">>, TextH, 0, TextP, <<>>, <<>>, <<>>),
     Section(<<"bullets">>, <<>>, 0, <<>>, TwoBullets, <<>>, <<>>),
     Section(<<"bullets">>, <<>>, 0, <<>>, <<>>, <<>>, <<>>),
     Section(<<"code">>, <<>>, 0, <<>>, <<>>, TextC, <<>>),
     Section(<<"code", "language">>, <<>>, 0, <<>>, <<>>, TextC, LangJs),
     Section(<<"language", "paragraph">>, <<>>, 0, TextP, <<>>, <<>>, LangJs),
     Section(<<"heading", "paragraph", "bullets", "code">>, TextH, 0, TextP, TwoBullets, TextC, <<>>),
     Section(<<"code", "bullets", "level", "paragraph", "heading">>, TextH, 1, TextP, TwoBullets,
             TextC, <<>>)}

\* The texts given to simple_adf
AdfTexts == {<<>>, <<"p">>, TextP, TextC}

InitAdf ==
    /\ helper \in {"build_adf", "simple_adf"}
    /\ resp = [status |-> 0, body |-> TextBody(<<>>)]
    /\ result = NoCall
    /\ pc = "call"
    /\ IdleEnv
    /\ script = ""
    /\ argv = <<>>
    /\ stdin = None
    /\ requests = <<>>
    /\ out = <<>>
    /\ exitCode = -1
    /\ \/ /\ helper = "build_adf"
          /\ \E sections \in SeqsUpTo(SectionChoices, MaxSections) :
                locals = [sections |-> sections, text |-> <<>>]
       \/ /\ helper = "simple_adf"
          /\ \E text \in AdfTexts : locals = [sections |-> <<>>, text |-> text]
    /\ remote = [faults |-> 0, transitions |-> <<>>]

BuildAdf ==
    /\ pc = "call" /\ helper = "build_adf"
    /\ result' = Return(<<build_adf(locals.sections)>>)
    /\ pc' = "called"
    /\ UNCHANGED <<helper, resp>>
    /\ UNCHANGED envVars
    /\ UNCHANGED <<script, argv, stdin, requests, out, exitCode, locals, remote>>

SimpleAdf ==
    /\ pc = "call" /\ helper = "simple_adf"
    /\ result' = Return(<<simple_adf(locals.text)>>)
    /\ pc' = "called"
    /\ UNCHANGED <<helper, resp>>
    /\ UNCHANGED envVars
    /\ UNCHANGED <<script, argv, stdin, requests, out, exitCode, locals, remote>>

NextAdf ==
    \/ BuildAdf
    \/ SimpleAdf

SpecAdf == InitAdf /\ [][NextAdf]_vars

\* The keys that give a block and the type of the block of each, in the order
\* of the claim
BlockKeys == <<"heading", "paragraph", "bullets", "code">>
BlockTypes == <<"heading", "paragraph", "bulletList", "codeBlock">>

\* The number of block-producing fields a section carries
CarriedCount(section) == Cardinality({j \in 1..4 : HasKey(section, BlockKeys[j])})

RECURSIVE CarriedSum(_)
CarriedSum(sections) ==
    IF sections = <<>> THEN 0 ELSE CarriedCount(Head(sections)) + CarriedSum(Tail(sections))

Built == pc = "called" /\ helper = "build_adf"

\* C18: the content of the document build_adf returns has as many blocks as
\* the sections carry fields among heading, paragraph, bullets and code,
\* summed over the sections.
C18_OneBlockPerCarriedField ==
    Built => Len(result.value[1].content) = CarriedSum(locals.sections)

\* C18 witness: a section with no block field next to one with all four: four
\* blocks
C18_Witness ==
    /\ Built
    /\ Len(locals.sections) = 2
    /\ CarriedCount(locals.sections[1]) = 0 /\ locals.sections[1].keys # <<>>
    /\ CarriedCount(locals.sections[2]) = 4
    /\ Len(result.value[1].content) = 4

\* The places (section, field) of the blocks, sections in the order given and
\* the fields of a section in the order heading, paragraph, bullets, code
RECURSIVE Places(_, _)
Places(sections, i) ==
    IF i > Len(sections) THEN <<>>
    ELSE LET carried == SelectSeq(<<1, 2, 3, 4>>, LAMBDA j : HasKey(sections[i], BlockKeys[j]))
         IN [k \in 1..Len(carried) |-> <<i, carried[k]>>] \o Places(sections, i + 1)

\* The text(s) a block carries
BlockText(block) ==
    IF block.type = "bulletList"
    THEN [b \in 1..Len(block.content) |-> block.content[b].content[1].content[1].text]
    ELSE block.content[1].text

\* C19: the blocks of build_adf follow the order of the sections, and the
\* blocks of one section the order heading, paragraph, bulletList, codeBlock,
\* whatever the order in which the keys of the section were given.
C19_BlocksInSectionThenFixedOrder ==
    Built =>
        LET content == result.value[1].content
            places == Places(locals.sections, 1)
        IN
        /\ Len(content) = Len(places)
        /\ \A k \in 1..Len(places) :
              LET section == locals.sections[places[k][1]]
                  j == places[k][2]
              IN /\ content[k].type = BlockTypes[j]
                 /\ BlockText(content[k]) =
                       (CASE j = 1 -> section.heading
                          [] j = 2 -> section.paragraph
                          [] j = 3 -> section.bullets
                          [] j = 4 -> section.code)

\* C19 witness: a section whose keys were given as code, bullets, level,
\* paragraph, heading, after a paragraph section: paragraph, then heading,
\* paragraph, bulletList, codeBlock
C19_Witness ==
    /\ Built
    /\ Len(locals.sections) = 2
    /\ locals.sections[1].keys = <<"paragraph">>
    /\ locals.sections[2].keys = <<"code", "bullets", "level", "paragraph", "heading">>
    /\ [k \in 1..5 |-> result.value[1].content[k].type]
          = <<"paragraph", "heading", "paragraph", "bulletList", "codeBlock">>

\* C20: simple_adf(text) is a document of type doc and version 1 whose content
\* is one paragraph block holding one text node with the text as given, and
\* it equals build_adf of the one section {paragraph: text}.
C20_SimpleAdfIsOneParagraph ==
    (pc = "called" /\ helper = "simple_adf") =>
        LET doc == result.value[1] IN
        /\ DOMAIN doc = {"type", "version", "content"}
        /\ doc.type = "doc" /\ doc.version = 1
        /\ Len(doc.content) = 1
        /\ doc.content[1].type = "paragraph"
        /\ doc.content[1].content = <<[type |-> "text", text |-> locals.text]>>
        /\ doc = build_adf(<<Section(<<"paragraph">>, <<>>, 0, locals.text, <<>>, <<>>, <<>>)>>)

\* C20 witness: a text with blanks around it comes back as it was given
C20_Witness ==
    /\ pc = "called" /\ helper = "simple_adf"
    /\ locals.text = TextP
    /\ result.value[1].content[1].content[1].text = <<" ", "p", " ">>

--------------------------------------------------------------------------
(* Properties of the request body *)

\* The body of the request the helper sent
SentBody == requests[Len(requests)].body

\* C21: a request carries the JSON serialization of the body value whenever
\* one was supplied, an empty object or an empty list included, and goes
\* without a body only when none was supplied.
C21_BodySentWheneverSupplied ==
    (pc = "called" /\ helper \in Helpers /\ "data" \in DOMAIN locals) =>
        /\ locals.data # None => SentBody = <<json_dumps(locals.data[1])>>
        /\ SentBody = None => locals.data = None

--------------------------------------------------------------------------
(* The blocks of build_adf *)

\* A text node {type: "text", text: <string>}
IsTextNode(node) == DOMAIN node = {"type", "text"} /\ node.type = "text"

\* The content is not empty and holds text nodes only
TextLeaves(content) ==
    content # <<>> /\ \A i \in 1..Len(content) : IsTextNode(content[i])

\* A block with content, every leaf of which is a text node
WellFormedBlock(block) ==
    IF block.type = "bulletList"
    THEN /\ block.content # <<>>
         /\ \A i \in 1..Len(block.content) :
               LET item == block.content[i] IN
               /\ item.content # <<>>
               /\ \A j \in 1..Len(item.content) : TextLeaves(item.content[j].content)
    ELSE TextLeaves(block.content)

\* C22: every block of a document build_adf returns has content, and every
\* leaf of it is a text node; no block is without a text leaf, for any
\* sequence of sections.
C22_EveryBlockHasTextLeaves ==
    Built =>
        \A k \in 1..Len(result.value[1].content) : WellFormedBlock(result.value[1].content[k])

\* C23: for a section with bullets b1..bn build_adf emits one bulletList block
\* with exactly n listItem nodes in the order of the bullets, the i-th holding
\* exactly one paragraph that holds exactly one text node with text bi.
C23_OneListItemPerBullet ==
    Built =>
        LET content == result.value[1].content
            places == Places(locals.sections, 1)
        IN
        /\ Len(content) = Len(places)
        /\ Cardinality({k \in 1..Len(content) : content[k].type = "bulletList"})
              = Cardinality({i \in 1..Len(locals.sections) : HasKey(locals.sections[i], "bullets")})
        /\ \A k \in 1..Len(places) :
              places[k][2] = 3 =>
                 LET bullets == locals.sections[places[k][1]].bullets
                     block == content[k]
                 IN /\ block.type = "bulletList"
                    /\ Len(block.content) = Len(bullets)
                    /\ \A i \in 1..Len(bullets) :
                          /\ block.content[i].type = "listItem"
                          /\ Len(block.content[i].content) = 1
                          /\ block.content[i].content[1].type = "paragraph"
                          /\ block.content[i].content[1].content
                                = <<[type |-> "text", text |-> bullets[i]]>>

\* C23 witness: the bullets a, b after a heading and a paragraph give the third
\* block, with the items a and b
C23_Witness ==
    /\ Built
    /\ Len(locals.sections) = 1
    /\ locals.sections[1].keys = <<"heading", "paragraph", "bullets", "code">>
    /\ locals.sections[1].bullets = <<<<"a">>, <<"b">>>>
    /\ BlockText(result.value[1].content[3]) = <<<<"a">>, <<"b">>>>

\* The section without its level when it has no heading, and without its
\* language when it has no code
WithoutIdleKeys(section) ==
    [section EXCEPT !.keys =
        SelectSeq(section.keys,
                  LAMBDA key : /\ (key = "level" => HasKey(section, "heading"))
                               /\ (key = "language" => HasKey(section, "code")))]

\* C24: a heading block has the level of its section when one is given and 2
\* otherwise, a codeBlock the language of its section when one is given and
\* "text" otherwise; a level without heading and a language without code
\* give no block and change no other block.
C24_LevelAndLanguageDefaults ==
    Built =>
        LET content == result.value[1].content
            places == Places(locals.sections, 1)
        IN
        /\ Len(content) = Len(places)
        /\ \A k \in 1..Len(places) :
              LET section == locals.sections[places[k][1]] IN
              /\ places[k][2] = 1 =>
                    /\ content[k].type = "heading"
                    /\ content[k].attrs.level
                          = (IF HasKey(section, "level") THEN section.level ELSE 2)
              /\ places[k][2] = 4 =>
                    /\ content[k].type = "codeBlock"
                    /\ content[k].attrs.language
                          = (IF HasKey(section, "language") THEN section.language
                             ELSE <<"t", "e", "x", "t">>)
        /\ content = build_adf([i \in 1..Len(locals.sections) |->
                                    WithoutIdleKeys(locals.sections[i])]).content

\* C24 witness: a level alone gives no block; the heading after it has its own
\* level 3
C24_Witness ==
    /\ Built
    /\ Len(locals.sections) = 2
    /\ locals.sections[1].keys = <<"level">>
    /\ locals.sections[2].keys = <<"heading", "level">> /\ locals.sections[2].level = 3
    /\ Len(result.value[1].content) = 1
    /\ result.value[1].content[1].attrs.level = 3

--------------------------------------------------------------------------
(* The lines of the environment file *)

\* The line, trimmed, is not empty, does not start with '#' and holds an '='
Qualifies(line) ==
    LET t == Strip(line) IN
    t # <<>> /\ t[1] # "#" /\ \E i \in 1..Len(t) : t[i] = "="

\* The place of the first '=' of a text
EqualsAt(t) == CHOOSE i \in 1..Len(t) : t[i] = "=" /\ \A j \in 1..Len(t) : t[j] = "=" => i <= j

\* The trimmed text before the first '=' of the trimmed line, and after it
KeyOfLine(line) == LET t == Strip(line) IN Strip(SubSeq(t, 1, EqualsAt(t) - 1))
ValueOfLine(line) == LET t == Strip(line) IN Strip(SubSeq(t, EqualsAt(t) + 1, Len(t)))

\* C25: every variable load_env adds comes from a line of the file that,
\* trimmed, is not empty, does not start with '#' and holds '=', with the
\* trimmed text before the first '=' as key and the trimmed text after it as
\* value; the other lines contribute nothing (the outcome is that of the file
\* without them), and the file is left as it was.
C25_OnlyAssignmentLinesCount ==
    [][/\ envFile' = envFile
       /\ (pc = "load_env" /\ pc' # "load_env") =>
             /\ \A k \in DOMAIN environ' \ DOMAIN environ :
                   /\ envFile.exists
                   /\ \E i \in 1..Len(envFile.lines) :
                         /\ Qualifies(envFile.lines[i])
                         /\ KeyOfLine(envFile.lines[i]) = k
                         /\ ValueOfLine(envFile.lines[i]) = environ'[k]
             /\ envFile.exists =>
                   environ' = load_env(environ, File(SelectSeq(envFile.lines, Qualifies))).env]_vars

\* C25 witness: after a comment line, the line JIRA_BASE_URL=a=b has set the
\* variable to a=b
C25_Witness ==
    /\ pc # "load_env"
    /\ envFile.exists /\ Len(envFile.lines) = 2
    /\ ~Qualifies(envFile.lines[1]) /\ envFile.lines[1] # <<" ">>
    /\ JIRA_BASE_URL \notin DOMAIN environ0
    /\ JIRA_BASE_URL \in DOMAIN environ /\ environ[JIRA_BASE_URL] = <<"a", "=", "b">>

\* The first line of the file that assigns to the key
FirstLineFor(key) ==
    CHOOSE i \in 1..Len(envFile.lines) :
        /\ Qualifies(envFile.lines[i]) /\ KeyOfLine(envFile.lines[i]) = key
        /\ \A j \in 1..(i - 1) :
              ~(Qualifies(envFile.lines[j]) /\ KeyOfLine(envFile.lines[j]) = key)

\* C30: a key the process environment does not set gets the value of the
\* first line of the file that assigns to it, whatever later lines assign;
\* calling load_env again leaves the environment as it is.
C30_FirstLineWinsAndIdempotent ==
    pc # "load_env" =>
        /\ \A k \in DOMAIN environ \ DOMAIN environ0 :
              environ[k] = ValueOfLine(envFile.lines[FirstLineFor(k)])
        /\ load_env(environ, envFile).env = environ

\* C30 witness: the file assigns f, then g, to JIRA_EMAIL, which the process
\* environment does not set: the value is f
C30_Witness ==
    /\ pc # "load_env"
    /\ JIRA_EMAIL \notin DOMAIN environ0
    /\ envFile.exists /\ Len(envFile.lines) = 2
    /\ \A i \in 1..2 : Qualifies(envFile.lines[i]) /\ KeyOfLine(envFile.lines[i]) = JIRA_EMAIL
    /\ ValueOfLine(envFile.lines[1]) = <<"f">> /\ ValueOfLine(envFile.lines[2]) = <<"g">>
    /\ environ[JIRA_EMAIL] = <<"f">>

--------------------------------------------------------------------------
(* Comments of workflow-demo *)

IsCommentPost(q) == q.method = "POST" /\ q.path = "/issue/comment"

\* C26: workflow-demo posts a comment only right after a transition POST for
\* the same issue that returned without error, and sends a transition POST
\* only right after a GET of the transitions in which a transition matches
\* the target: with no match there is neither a transition POST nor a
\* comment, and after a failed transition POST no comment.
C26_CommentOnlyAfterTransition ==
    [][(script = "workflow-demo" /\ Len(requests') = Len(requests) + 1) =>
         LET q == requests'[Len(requests')] IN
         /\ IsCommentPost(q) =>
               /\ Len(requests) > 0
               /\ IsTransitionPost(requests[Len(requests)])
               /\ requests[Len(requests)].key = q.key
               /\ resp.status \in SuccessStatuses /\ result.kind = "return"
         /\ IsTransitionPost(q) =>
               /\ Len(requests) > 0
               /\ IsTransitionsGet(requests[Len(requests)])
               /\ requests[Len(requests)].key = q.key
               /\ result.kind = "return"
               /\ \E i \in 1..Len(result.value[1].transitions) :
                     MatchesTarget(result.value[1].transitions[i], locals.target)
      ]_vars

\* C26 witness: `complete` has ended after the GET of the transitions, the
\* transition POST and the comment POST, in this order
C26_Witness ==
    /\ script = "workflow-demo" /\ pc = "exit" /\ exitCode = 0
    /\ Len(argv) = 2 /\ argv[1] = ActComplete
    /\ Len(requests) = 3
    /\ IsTransitionsGet(requests[1])
    /\ IsTransitionPost(requests[2])
    /\ IsCommentPost(requests[3])

--------------------------------------------------------------------------
(* The tallies of bulk-create against the issues created *)

\* The issues the run created: the create POSTs that returned an issue, each
\* of which the run reports by its key
IssuesCreated == CountLines("[OK] Created")

\* C27: the Created count bulk-create prints at the end is the number of
\* issues created on the remote, and the Failed count the number of summaries
\* for which no issue was created.
C27_TalliesMatchRemote ==
    (script = "bulk-create" /\ pc = "exit" /\ HasLine("SUMMARY")) =>
        \A l \in 1..Len(out) :
            /\ out[l].tag = "Created:" => out[l].text = <<IssuesCreated>>
            /\ out[l].tag = "Failed:" => out[l].text = <<Len(locals.commits) - IssuesCreated>>

--------------------------------------------------------------------------
(* The verdict of the test suite *)

\* C28: test.py prints ALL TESTS PASSED only when every step succeeded: a
\* transition to Done was found and executed, and the status fetched
\* afterwards is Done; a step that fails makes it print SOME TESTS FAILED.
C28_PassedOnlyIfEveryStepSucceeded ==
    (script = "test" /\ pc = "exit" /\ HasLine("ALL TESTS PASSED")) =>
        /\ ~HasLine("SOME TESTS FAILED")
        /\ ~HasLine("[FAIL] No Done transition available")
        /\ HasLine("[OK] Issue transitioned to Done")
        /\ \E q \in {requests[i] : i \in 1..Len(requests)} : IsTransitionPost(q)
        /\ \A l \in 1..Len(out) :
              out[l].tag = "[OK] Issue status:" => out[l].text = <<"D", "o", "n", "e">>

--------------------------------------------------------------------------
(* The error messages of the space scripts *)

\* C29: create-space and delete-space choose the error message by the status
\* of the failed request: already exists only on 409, no permission only on
\* 403, not found only on 404, whatever the body of the response holds.
C29_MessageByStatus ==
    (script \in {"create-space", "delete-space"} /\ pc = "exit") =>
        /\ HasLine("Error: Space already exists.") => resp.status = 409
        /\ (\/ HasLine("Error: You do not have permission to create spaces.")
            \/ HasLine("Error: You do not have permission to delete this space."))
              => resp.status = 403
        /\ (\/ HasLine("Error: Space not found (may have already been deleted).")
            \/ HasLine("Error: Space not found."))
              => resp.status = 404

==========================================================================
